---------------------------- MODULE Spec2Model ----------------------------
(***************************************************************************)
(* Model of the request pipeline of sonnys_data_client:                    *)
(*   - RateLimiter            (_rate_limiter.py)                           *)
(*   - SonnysClient._request  (_client.py)                                 *)
(*   - make_status_error      (_exceptions.py)                             *)
(*   - ListableResource.list  (_resources.py)                              *)
(*   - Transactions.load_job  (resources/_transactions.py)                 *)
(*   - Transactions._paginated_fetch (resources/_transactions.py)          *)
(*   - StatsResource          (resources/_stats.py)                        *)
(*   - parse_date_range       (_date_utils.py)                             *)
(*                                                                         *)
(* Time is counted in whole ticks of the monotonic clock (one tick stands  *)
(* for one second); window_seconds, waits and backoff delays are whole     *)
(* numbers of ticks.  Floating point rounding is not modelled.             *)
(***************************************************************************)
EXTENDS Integers, Sequences, FiniteSets, TLC

\* ------------------------------------------------------------------------
\* Bounds of the model
\* ------------------------------------------------------------------------
\* largest max_requests a limiter is constructed with (the default is 20)
MaxLimit == 3
\* largest window_seconds a limiter is constructed with (the default is 15)
MaxWindow == 3
\* last clock value at which the stand-alone limiter is still driven
MaxTime == 6
\* largest max_retries a client is constructed with (the default is 3)
MaxRetriesBound == 3
\* number of _request calls made on one client
MaxCalls == 2
\* longest time one HTTP exchange takes
MaxLatency == 1
\* largest HTTP status code handed to make_status_error
MaxStatusCode == 620
\* largest _default_limit (page size) of a listable resource (the default is 100)
MaxPageSize == 2
\* largest total a list endpoint reports
MaxTotal == 4
\* largest number of items a non-paginated endpoint returns
MaxSinglePage == 3
\* largest limit a load_job call asks for (the default is 100)
MaxJobLimit == 2
\* largest offset (first page) a load_job call asks for (the default is 1)
MaxStartPage == 2
\* largest total a job reports
MaxJobTotal == 3
\* largest poll_interval of a load_job call (the default is 2)
MaxPollInterval == 2
\* largest timeout of a load_job call (the default is 300)
MaxTimeout == 2
\* largest number of v2 transactions a KPI method aggregates
MaxTxns == 2
\* last day of the calendar the date ranges are taken from
MaxDay == 1
\* largest limit _paginated_fetch is called with (the default is 100)
MaxFetchLimit == 2
\* largest number of items an endpoint read by _paginated_fetch holds
MaxFetchItems == 4

VARIABLES
    now,             \* time.monotonic()
    max_requests,    \* RateLimiter._max_requests
    window_seconds,  \* RateLimiter._window_seconds
    timestamps,      \* RateLimiter._timestamps (deque, oldest first)
    op,              \* the limiter operation that produced this state
    before,          \* the deque as that operation found it
    ret,             \* what that operation returned
    refusal,         \* SpecRL: the latest acquire() that returned a positive wait
    max_retries,     \* SonnysClient._max_retries
    pc,              \* position of the caller inside _request
    attempt,         \* loop variable of _request
    trace,           \* acquire / sleep / HTTP events of the current _request call
    outcome,         \* what the current _request call returned or raised
    calls,           \* number of _request calls started on this client
    sent_at,         \* the times of the HTTP requests sent during the last window_seconds
    response,        \* input of make_status_error
    error,           \* result of make_status_error
    paginated,       \* ListableResource._paginated
    default_limit,   \* ListableResource._default_limit
    params,          \* the **params of the list() call
    list_pc,         \* position of the caller inside list()
    offset,          \* _list_paginated: offset
    all_items,       \* _list_paginated: all_items
    list_requests,   \* the params of the _request calls made by list(), in order
    list_responses,  \* size and reported total of the pages received, in order
    list_result,     \* what list() returned or raised
    poll_interval,   \* load_job: poll_interval
    timeout,         \* load_job: timeout
    job_limit,       \* load_job: limit
    job_page,        \* load_job: page
    job_total,       \* load_job: total, as returned for the first page
    job_total_pages, \* load_job: total_pages
    job_items,       \* load_job: all_items
    job_pc,          \* position of the caller inside load_job
    hash_value,      \* _submit_and_poll: hash_value
    deadline,        \* _submit_and_poll: deadline
    poll_count,      \* _submit_and_poll: poll_count
    job_log,         \* the _request and sleep calls of the current _submit_and_poll
    job_submits,     \* the submissions of this load_job call, in order
    job_pages,       \* the raw data of the jobs that passed, in order
    job_reported,    \* body.get("total") of the first job that passed
    job_result,      \* what load_job returned or raised
    v2_transactions, \* what _fetch_transactions_v2 returns for the date range
    wash_transactions, \* the trans_id of what _fetch_transactions_by_type(.., "wash") returns
    stats_results,   \* the latest result of each KPI method
    stats_trace,     \* the fetches and loops of the latest call of each KPI method
    stats_rerun,     \* the latest KPI call repeated a method that had run before
    date_start,      \* parse_date_range: start
    date_end,        \* parse_date_range: end
    date_tz,         \* parse_date_range: tz
    date_result,     \* what parse_date_range returned or raised
    utc_now,         \* _resolve_dates: datetime.now(timezone.utc), in half ticks
    resolve_result,  \* what _resolve_dates returned or raised
    fetch_limit,     \* _paginated_fetch: limit
    fetch_server,    \* the items the endpoint holds: for each, whether it decodes
    fetch_serves,    \* how the endpoint reads "offset"
    fetch_reports,   \* whether the endpoint's responses carry "total"
    fetch_page,      \* _paginated_fetch: page
    fetch_items,     \* _paginated_fetch: all_items
    fetch_pc,        \* position of the caller inside _paginated_fetch
    fetch_requests,  \* the offset of each request sent, in order
    fetch_responses, \* size and reported total of the pages received, in order
    fetch_result     \* what _paginated_fetch returned or raised

vars == <<now, max_requests, window_seconds, timestamps, op, before, ret,
          refusal,
          max_retries, pc, attempt, trace, outcome, calls, sent_at,
          response, error,
          paginated, default_limit, params, list_pc, offset, all_items,
          list_requests, list_responses, list_result,
          poll_interval, timeout, job_limit, job_page, job_total,
          job_total_pages, job_items, job_pc, hash_value, deadline,
          poll_count, job_log, job_submits, job_pages, job_reported,
          job_result, v2_transactions, wash_transactions, stats_results,
          stats_trace, stats_rerun, date_start, date_end, date_tz, date_result,
          utc_now, resolve_result,
          fetch_limit, fetch_server, fetch_serves, fetch_reports, fetch_page,
          fetch_items, fetch_pc, fetch_requests, fetch_responses,
          fetch_result>>

limiterVars == <<max_requests, window_seconds, timestamps, op, before, ret,
                 refusal>>
clientVars == <<max_retries, pc, attempt, trace, outcome, calls, sent_at>>
errorVars == <<response, error>>
listVars == <<paginated, default_limit, params, list_pc, offset, all_items,
              list_requests, list_responses, list_result>>
jobVars == <<poll_interval, timeout, job_limit, job_page, job_total,
             job_total_pages, job_items, job_pc, hash_value, deadline,
             poll_count, job_log, job_submits, job_pages, job_reported,
          job_result>>
statsVars == <<v2_transactions, wash_transactions, stats_results,
               stats_trace, stats_rerun>>
dateVars == <<date_start, date_end, date_tz, date_result, utc_now,
              resolve_result>>
kpiVars == <<statsVars, dateVars>>
fetchVars == <<fetch_limit, fetch_server, fetch_serves, fetch_reports,
               fetch_page, fetch_items, fetch_pc, fetch_requests,
               fetch_responses, fetch_result>>
resourceVars == <<listVars, jobVars, kpiVars, fetchVars>>

NoOutcome == [kind |-> "none", status_code |-> 0]
NoError == [kind |-> "none", status_code |-> 0]

\* ------------------------------------------------------------------------
\* RateLimiter
\* ------------------------------------------------------------------------

\* variant of _purge that pops at most one timestamp ("if" for "while")
purge_once(ts, t, w) ==
    IF ts # <<>> /\ Head(ts) <= t - w THEN Tail(ts) ELSE ts

\* _purge: pop from the left while the oldest timestamp is <= now - window
RECURSIVE purge(_, _, _)
purge(ts, t, w) ==
    IF ts # <<>> /\ Head(ts) <= t - w
    THEN purge(Tail(ts), t, w)
    ELSE ts

\* variant of the admission test that is off by one ("<=" for "<")
admits_inclusive(purged, limit) == Len(purged) <= limit

\* acquire: is the attempt admitted, given the purged deque
admits(purged, limit) == Len(purged) < limit

\* variant of acquire that records the attempt also when it is over the limit
acquire_timestamps_always(ts, t, limit, w) == Append(purge(ts, t, w), t)

\* acquire: the deque after the call at time t
acquire_timestamps(ts, t, limit, w) ==
    LET purged == purge(ts, t, w)
    IN  IF admits(purged, limit) THEN Append(purged, t) ELSE purged

\* variant of acquire whose wait ends one tick before the oldest entry expires
acquire_wait_early(ts, t, limit, w) ==
    LET purged == purge(ts, t, w)
    IN  IF admits(purged, limit) THEN 0 ELSE Head(purged) + w - t - 1

\* variant of acquire whose wait leaves out the window length
acquire_wait_no_window(ts, t, limit, w) ==
    LET purged == purge(ts, t, w)
    IN  IF admits(purged, limit) THEN 0 ELSE Head(purged) - t

\* acquire: the returned wait of the call at time t
acquire_wait(ts, t, limit, w) ==
    LET purged == purge(ts, t, w)
    IN  IF admits(purged, limit) THEN 0 ELSE Head(purged) + w - t

\* the latest acquire() that returned a positive wait, with its time and its
\* wait; met is set by the first acquire() admitted after it
refused(prev, wait, t) ==
    IF wait > 0 THEN <<[t |-> t, w |-> wait, met |-> FALSE]>>
    ELSE IF prev = <<>> THEN prev
    ELSE <<[prev[1] EXCEPT !.met = TRUE]>>

\* available: the returned number of free slots at time t
available(ts, t, limit, w) == limit - Len(purge(ts, t, w))

\* variant of reset that drops only the oldest timestamp
reset_timestamps_oldest(ts) == IF ts = <<>> THEN ts ELSE Tail(ts)

\* reset: the deque after the call
reset_timestamps(ts) == <<>>

ClientIdle ==
    /\ max_retries = 0
    /\ pc = "idle"
    /\ attempt = 0
    /\ trace = <<>>
    /\ outcome = NoOutcome
    /\ calls = 0
    /\ sent_at = <<>>

ErrorIdle ==
    /\ response = 0
    /\ error = NoError

NoResult == [kind |-> "none", items |-> <<>>]

ListIdle ==
    /\ paginated = TRUE
    /\ default_limit = 1
    /\ params = <<>>
    /\ list_pc = "idle"
    /\ offset = 0
    /\ all_items = <<>>
    /\ list_requests = <<>>
    /\ list_responses = <<>>
    /\ list_result = NoResult

NoJobResult == [kind |-> "none", items |-> <<>>, timeout |-> 0]

JobIdle ==
    /\ poll_interval = 1
    /\ timeout = 1
    /\ job_limit = 1
    /\ job_page = 1
    /\ job_total = 0
    /\ job_total_pages = 0
    /\ job_items = <<>>
    /\ job_pc = "idle"
    /\ hash_value = 0
    /\ deadline = 0
    /\ poll_count = 0
    /\ job_log = <<>>
    /\ job_submits = <<>>
    /\ job_pages = <<>>
    /\ job_reported = <<>>
    /\ job_result = NoJobResult

\* the KPI methods of StatsResource
Methods == {"total_sales", "total_washes", "new_memberships_sold",
            "conversion_rate", "report"}

StatsIdle ==
    /\ v2_transactions = <<>>
    /\ wash_transactions = <<>>
    /\ stats_results = [m \in Methods |-> <<>>]
    /\ stats_trace = [m \in Methods |-> <<>>]
    /\ stats_rerun = FALSE

NoDate == [kind |-> "none", day |-> 0, tick |-> 0, off |-> 0]
NoDateResult == [kind |-> "none", start_dt |-> 0, end_dt |-> 0]

NoParams == [kind |-> "none", startDate |-> 0, endDate |-> 0]

DateIdle ==
    /\ date_start = NoDate
    /\ date_end = NoDate
    /\ date_tz = <<>>
    /\ date_result = NoDateResult
    /\ utc_now = 0
    /\ resolve_result = NoParams

KpiIdle == StatsIdle /\ DateIdle

FetchIdle ==
    /\ fetch_limit = 1
    /\ fetch_server = <<>>
    /\ fetch_serves = "items"
    /\ fetch_reports = FALSE
    /\ fetch_page = 1
    /\ fetch_items = <<>>
    /\ fetch_pc = "idle"
    /\ fetch_requests = <<>>
    /\ fetch_responses = <<>>
    /\ fetch_result = NoResult

ResourcesIdle == ListIdle /\ JobIdle /\ KpiIdle /\ FetchIdle

\* RateLimiter.__init__ at clock value 0
InitRL ==
    /\ now = 0
    /\ max_requests \in 1..MaxLimit
    /\ window_seconds \in 1..MaxWindow
    /\ timestamps = <<>>
    /\ op = "init"
    /\ before = <<>>
    /\ ret = 0
    /\ refusal = <<>>
    /\ ClientIdle
    /\ ErrorIdle
    /\ ResourcesIdle

\* the monotonic clock advances between two calls
Tick ==
    /\ now < MaxTime
    /\ now' = now + 1
    /\ op' = "tick"
    /\ before' = timestamps
    /\ UNCHANGED <<max_requests, window_seconds, timestamps, ret, refusal>>
    /\ UNCHANGED <<clientVars, errorVars>>
    /\ UNCHANGED resourceVars

Acquire ==
    /\ timestamps' = acquire_timestamps(timestamps, now, max_requests, window_seconds)
    /\ ret' = acquire_wait(timestamps, now, max_requests, window_seconds)
    /\ op' = "acquire"
    /\ before' = timestamps
    /\ refusal' = refused(refusal, acquire_wait(timestamps, now, max_requests, window_seconds), now)
    /\ UNCHANGED <<now, max_requests, window_seconds>>
    /\ UNCHANGED <<clientVars, errorVars>>
    /\ UNCHANGED resourceVars

Available ==
    /\ timestamps' = purge(timestamps, now, window_seconds)
    /\ ret' = available(timestamps, now, max_requests, window_seconds)
    /\ op' = "available"
    /\ before' = timestamps
    /\ UNCHANGED <<now, max_requests, window_seconds, refusal>>
    /\ UNCHANGED <<clientVars, errorVars>>
    /\ UNCHANGED resourceVars

Reset ==
    /\ timestamps' = reset_timestamps(timestamps)
    /\ ret' = 0
    /\ op' = "reset"
    /\ before' = timestamps
    /\ UNCHANGED <<now, max_requests, window_seconds, refusal>>
    /\ UNCHANGED <<clientVars, errorVars>>
    /\ UNCHANGED resourceVars

NextRL == Tick \/ Acquire \/ Available \/ Reset

SpecRL == InitRL /\ [][NextRL]_vars

\* ------------------------------------------------------------------------
\* make_status_error
\* ------------------------------------------------------------------------

\* _STATUS_MAP
STATUS_MAP ==
    (400 :> "ValidationError") @@ (403 :> "AuthError") @@ (404 :> "NotFoundError")
    @@ (422 :> "ValidationError") @@ (429 :> "RateLimitError") @@ (500 :> "ServerError")

\* variant of the class selection whose fallback treats every unmapped code
\* as a server error
exc_class_all_server(status_code) ==
    IF status_code \in DOMAIN STATUS_MAP
    THEN STATUS_MAP[status_code]
    ELSE "ServerError"

\* make_status_error: the exception class selected for a status code
exc_class(status_code) ==
    IF status_code \in DOMAIN STATUS_MAP
    THEN STATUS_MAP[status_code]
    ELSE IF status_code >= 500 THEN "ServerError" ELSE "APIStatusError"

\* make_status_error: the exception built for a response with this status
make_status_error(status_code) ==
    [kind |-> exc_class(status_code), status_code |-> status_code]

LimiterIdle ==
    /\ now = 0
    /\ max_requests = 1
    /\ window_seconds = 1
    /\ timestamps = <<>>
    /\ op = "init"
    /\ before = <<>>
    /\ ret = 0
    /\ refusal = <<>>

\* a response with any status code is about to be handed to make_status_error
InitErr ==
    /\ response \in 100..MaxStatusCode
    /\ error = NoError
    /\ LimiterIdle
    /\ ClientIdle
    /\ ResourcesIdle

MakeStatusError ==
    /\ error = NoError
    /\ error' = make_status_error(response)
    /\ UNCHANGED <<now, limiterVars, clientVars, response>>
    /\ UNCHANGED resourceVars

NextErr == MakeStatusError

SpecErr == InitErr /\ [][NextErr]_vars

\* ------------------------------------------------------------------------
\* SonnysClient._request
\* ------------------------------------------------------------------------

\* status codes the server answers with
ResponseCodes == {200, 399, 400, 404, 429, 500}

\* what self._session.request does: it returns a response or raises
Responses ==
    [kind : {"status"}, code : ResponseCodes]
        \cup {[kind |-> "ConnectionError", code |-> 0], [kind |-> "Timeout", code |-> 0]}

Event(e, v, r) == [e |-> e, v |-> v, r |-> r]

base_delay == 1

\* variant of the backoff delay that grows linearly
backoff_linear(n) == base_delay * (n + 1)

\* the backoff delay slept after the 429 of attempt n: base_delay * 2**attempt
backoff(n) == base_delay * (2 ^ n)

\* SonnysClient.__init__: a fresh client with its own limiter
InitReq ==
    /\ now = 0
    /\ max_requests \in 1..MaxLimit
    /\ window_seconds \in 1..MaxWindow
    /\ timestamps = <<>>
    /\ op = "init"
    /\ before = <<>>
    /\ ret = 0
    /\ refusal = <<>>
    /\ max_retries \in 0..MaxRetriesBound
    /\ pc = "idle"
    /\ attempt = 0
    /\ trace = <<>>
    /\ outcome = NoOutcome
    /\ calls = 0
    /\ sent_at = <<>>
    /\ ErrorIdle
    /\ ResourcesIdle

\* a caller enters _request (the previous call, if any, has ended)
Call ==
    /\ pc \in {"idle", "done"}
    /\ calls < MaxCalls
    /\ calls' = calls + 1
    /\ attempt' = 0
    /\ trace' = <<>>
    /\ outcome' = NoOutcome
    /\ pc' = "limit"
    /\ UNCHANGED <<now, limiterVars, max_retries, sent_at, errorVars>>
    /\ UNCHANGED resourceVars

\* variant of step 1 that does not sleep the wait the limiter returned
limiter_sleep_skipped(wait) == 0

\* step 1: the time slept for a wait returned by the limiter
limiter_sleep(wait) == IF wait > 0 THEN wait ELSE 0

\* "for attempt in range(self._max_retries + 1)"
in_loop(n, retries) == n < retries + 1

\* variant of the retry test that is off by one ("<=" for "<")
may_retry_inclusive(n, retries) == n <= retries

\* variant of the retry test that also retries after the last attempt
may_retry_always(n, retries) == TRUE

\* step 5: "if attempt < self._max_retries"
may_retry(n, retries) == n < retries

\* variant of the retry decision that also retries server errors
retried_with_5xx(r) == r.kind = "status" /\ (r.code = 429 \/ r.code >= 500)

\* step 5: the responses that lead to a retry
retried(r) == r.kind = "status" /\ r.code = 429

\* step 1 of one loop iteration: acquire(), then sleep when the wait is positive
RateLimitCheck ==
    /\ pc = "limit"
    /\ IF in_loop(attempt, max_retries)
       THEN LET wait == acquire_wait(timestamps, now, max_requests, window_seconds)
                slept == limiter_sleep(wait)
            IN  /\ timestamps' = acquire_timestamps(timestamps, now, max_requests, window_seconds)
                /\ before' = timestamps
                /\ op' = "acquire"
                /\ ret' = wait
                /\ now' = now + slept
                /\ trace' = IF slept > 0
                            THEN trace \o <<Event("acquire", wait, "-"), Event("limiter_sleep", slept, "-")>>
                            ELSE Append(trace, Event("acquire", wait, "-"))
                /\ pc' = "send"
                /\ UNCHANGED <<outcome, refusal>>
       ELSE \* the loop is exhausted: the statement after the loop
            /\ outcome' = [kind |-> "fell_out_of_loop", status_code |-> 0]
            /\ pc' = "done"
            /\ UNCHANGED <<now, timestamps, before, op, ret, refusal, trace>>
    /\ UNCHANGED <<max_requests, window_seconds, max_retries, attempt, calls,
                   sent_at, errorVars>>
    /\ UNCHANGED resourceVars

\* steps 2 to 6 of one loop iteration: the HTTP exchange and what follows it
SendRequest ==
    /\ pc = "send"
    /\ \E r \in Responses, latency \in 0..MaxLatency :
         LET sent == Append(trace, Event("http", r.code, r.kind))
         IN  IF r.kind = "ConnectionError"
             THEN /\ outcome' = [kind |-> "APIConnectionError", status_code |-> 0]
                  /\ trace' = sent
                  /\ now' = now + latency
                  /\ pc' = "done"
                  /\ UNCHANGED attempt
             ELSE IF r.kind = "Timeout"
             THEN /\ outcome' = [kind |-> "APITimeoutError", status_code |-> 0]
                  /\ trace' = sent
                  /\ now' = now + latency
                  /\ pc' = "done"
                  /\ UNCHANGED attempt
             ELSE IF r.code < 400
             THEN /\ outcome' = [kind |-> "returned", status_code |-> r.code]
                  /\ trace' = sent
                  /\ now' = now + latency
                  /\ pc' = "done"
                  /\ UNCHANGED attempt
             ELSE IF retried(r) /\ may_retry(attempt, max_retries)
             THEN /\ trace' = Append(sent, Event("backoff_sleep", backoff(attempt), "-"))
                  /\ now' = now + latency + backoff(attempt)
                  /\ attempt' = attempt + 1
                  /\ pc' = "limit"
                  /\ UNCHANGED outcome
             ELSE /\ outcome' = make_status_error(r.code)
                  /\ trace' = sent
                  /\ now' = now + latency
                  /\ pc' = "done"
                  /\ UNCHANGED attempt
    /\ sent_at' = Append(purge(sent_at, now, window_seconds), now)
    /\ UNCHANGED <<limiterVars, max_retries, calls, errorVars>>
    /\ UNCHANGED resourceVars

NextReq == Call \/ RateLimitCheck \/ SendRequest

SpecReq == InitReq /\ [][NextReq]_vars

\* time.sleep returns and session.request returns or raises: a call that is
\* inside _request takes its next step
SpecReqFair == SpecReq /\ WF_vars(RateLimitCheck) /\ WF_vars(SendRequest)

\* ------------------------------------------------------------------------
\* ListableResource.list
\* ------------------------------------------------------------------------

\* raw items a server sends; 0 is an item the model class rejects
RawItems == {0, 1, 2}

\* sequences over S of length 0..n
SeqsUpTo(S, n) == UNION {[1..k -> S] : k \in 0..n}

\* data.get("total"): <<>> when the body has no total, <<t>> when it has
Totals == {<<>>} \cup {<<t>> : t \in 0..MaxTotal}

\* the keyword arguments list() is called with
ParamChoices == {<<>>, [first_name |-> 7], [limit |-> 1], [offset |-> 2]}

\* variant of the decoder that accepts every item
validates_lenient(item) == TRUE

\* self._model.model_validate(item) raises for an item of the wrong shape
validates(item) == item # 0

\* self._model.model_validate(item) for an item of the right shape
model_validate(item) == [model |-> item]

\* "[model_validate(item) for item in items]"
validate_all(items) == [i \in DOMAIN items |-> model_validate(items[i])]

\* {"limit": self._default_limit, "offset": offset, **params}
request_params(limit, off, extra) == extra @@ [limit |-> limit, offset |-> off]

\* variant of the non-paginated request that sends paging parameters too
single_params_paged(extra) == extra @@ [limit |-> 100, offset |-> 1]

\* _list_non_paginated: params={**params}
single_params(extra) == extra

\* variant of the accumulation that puts a new page in front
extend_front(all, page) == validate_all(page) \o all

\* "for item in items: all_items.append(model_validate(item))"
extend(all, page) == all \o validate_all(page)

\* variant of the stop test that goes on one item past the total
stop_one_late(total, off) == total = <<>> \/ off - 1 > total[1]

\* variant of the stop test with the comparison turned around
stop_inverted(total, off) == total = <<>> \/ off < total[1]

\* variant of the stop test that goes on when no total is reported
stop_needs_total(total, off) == total # <<>> /\ off > total[1]

\* "if total is None or offset > total: break"
stop(total, off) == total = <<>> \/ off > total[1]

\* a resource's list(**params) has been called
InitList ==
    /\ LimiterIdle
    /\ ClientIdle
    /\ ErrorIdle
    /\ JobIdle
    /\ KpiIdle
    /\ FetchIdle
    /\ paginated \in BOOLEAN
    /\ default_limit \in 1..MaxPageSize
    /\ params \in ParamChoices
    /\ list_pc = "call"
    /\ offset = 1
    /\ all_items = <<>>
    /\ list_requests = <<>>
    /\ list_responses = <<>>
    /\ list_result = NoResult

\* one iteration of the loop of _list_paginated
ListPaginated ==
    /\ list_pc = "call"
    /\ paginated
    /\ list_requests' = Append(list_requests, request_params(default_limit, offset, params))
    /\ \E raises \in BOOLEAN, items \in SeqsUpTo(RawItems, default_limit), total \in Totals :
         IF raises
         THEN \* self._client._request raises
              /\ list_result' = [kind |-> "APIError", items |-> <<>>]
              /\ list_pc' = "done"
              /\ UNCHANGED <<offset, all_items, list_responses>>
         ELSE /\ list_responses' = Append(list_responses, [items |-> items, total |-> total])
              /\ IF \E i \in DOMAIN items : ~validates(items[i])
                 THEN \* model_validate raises
                      /\ list_result' = [kind |-> "ValidationError", items |-> <<>>]
                      /\ list_pc' = "done"
                      /\ UNCHANGED <<offset, all_items>>
                 ELSE /\ all_items' = extend(all_items, items)
                      /\ offset' = offset + default_limit
                      /\ IF stop(total, offset')
                         THEN /\ list_result' = [kind |-> "returned", items |-> all_items']
                              /\ list_pc' = "done"
                         ELSE UNCHANGED <<list_result, list_pc>>
    /\ UNCHANGED <<paginated, default_limit, params>>
    /\ UNCHANGED <<now, limiterVars, clientVars, errorVars, jobVars, kpiVars, fetchVars>>

\* _list_non_paginated
ListNonPaginated ==
    /\ list_pc = "call"
    /\ ~paginated
    /\ list_requests' = Append(list_requests, single_params(params))
    /\ list_pc' = "done"
    /\ \E raises \in BOOLEAN, items \in SeqsUpTo(RawItems, MaxSinglePage) :
         IF raises
         THEN /\ list_result' = [kind |-> "APIError", items |-> <<>>]
              /\ UNCHANGED list_responses
         ELSE /\ list_responses' = Append(list_responses, [items |-> items, total |-> <<>>])
              /\ list_result' =
                    IF \E i \in DOMAIN items : ~validates(items[i])
                    THEN [kind |-> "ValidationError", items |-> <<>>]
                    ELSE [kind |-> "returned", items |-> validate_all(items)]
    /\ UNCHANGED <<paginated, default_limit, params, offset, all_items>>
    /\ UNCHANGED <<now, limiterVars, clientVars, errorVars, jobVars, kpiVars, fetchVars>>

NextList == ListPaginated \/ ListNonPaginated

SpecList == InitList /\ [][NextList]_vars

\* _request returns or raises: list() takes its next step
SpecListFair == SpecList /\ WF_vars(NextList)

\* ------------------------------------------------------------------------
\* Transactions.load_job and _submit_and_poll (resources/_transactions.py)
\* ------------------------------------------------------------------------

\* body.get("total") of a poll response: <<>> when the key is absent; only
\* the total of the first page is read ("items, _ = ..." for the others)
JobTotals == {<<>>} \cup {<<t>> : t \in 0..MaxJobTotal}

\* what a GET /transaction/get-job-data can bring: a failed _request
\* (status "error"), a terminal or non-terminal status, and for "pass" the
\* number n of raw items, the reported total and whether an item is
\* rejected by TransactionJobItem.model_validate
PollResponses(limit, totals) ==
    {[status |-> "pass", n |-> n, total |-> t, bad |-> b] :
        n \in 0..limit, t \in totals, b \in {FALSE}}
    \cup {[status |-> "pass", n |-> n, total |-> t, bad |-> b] :
        n \in 1..limit, t \in totals, b \in {TRUE}}
    \cup {[status |-> s, n |-> 0, total |-> <<>>, bad |-> FALSE] :
        s \in {"fail", "working", "error"}}

\* body["data"] of the job with hash h when it holds n raw items
job_data(h, n) == [i \in 1..n |-> 10 * h + i]

\* a _request or time.sleep call of _submit_and_poll, issued at t and
\* finished at c
JobEvent(e, h, off, status, t, c) ==
    [e |-> e, h |-> h, offset |-> off, status |-> status, t |-> t, c |-> c]

\* {**params, "limit": limit, "offset": page}
job_params(limit, page) == [limit |-> limit, offset |-> page]

\* variant of the poll request that sends the hash of the submission before
poll_hash_previous(h) == h - 1

\* variant of the poll request that sends no hash
poll_hash_missing(h) == 0

\* params={"hash": hash_value}
poll_hash(h) == h

\* variant of the status test that keeps polling a failed job
job_outcome_fail_pending(status) ==
    IF status = "pass" THEN "pass" ELSE "pending"

\* variant of the status test that takes the data of a failed job
job_outcome_fail_pass(status) ==
    IF status = "pass" \/ status = "fail" THEN "pass" ELSE "pending"

\* the branch _submit_and_poll takes on body["status"]
job_outcome(status) ==
    IF status = "pass" THEN "pass"
    ELSE IF status = "fail" THEN "fail"
    ELSE "pending"

\* "total = body.get('total', len(body['data']))"
pass_total(total, data) == IF total = <<>> THEN Len(data) ELSE total[1]

\* variant of the deadline test that lets a poll finish on the deadline
timed_out_strict(t, d) == t > d

\* "if time.monotonic() >= deadline"
timed_out(t, d) == t >= d

\* variant of the sleep that grows with the number of polls
poll_sleep_growing(interval, count) == interval * count

\* "time.sleep(poll_interval)"
poll_sleep(interval, count) == interval

\* variant of the page count that rounds down
total_pages_floor(total, limit) == total \div limit

\* "total_pages = (total + limit - 1) // limit"
total_pages(total, limit) == (total + limit - 1) \div limit

\* "[TransactionJobItem.model_validate(i) for i in items]"
validate_job_items(items) == [i \in DOMAIN items |-> [model |-> items[i]]]

JobResult(kind, items, t) == [kind |-> kind, items |-> items, timeout |-> t]

\* load_job(poll_interval=..., timeout=..., limit=..., offset=...) has been
\* called
InitJob ==
    /\ LimiterIdle
    /\ ClientIdle
    /\ ErrorIdle
    /\ ListIdle
    /\ KpiIdle
    /\ FetchIdle
    /\ poll_interval \in 1..MaxPollInterval
    /\ timeout \in 1..MaxTimeout
    /\ job_limit \in 1..MaxJobLimit
    /\ job_page \in 1..MaxStartPage
    /\ job_total = 0
    /\ job_total_pages = 0
    /\ job_items = <<>>
    /\ job_pc = "submit"
    /\ hash_value = 0
    /\ deadline = 0
    /\ poll_count = 0
    /\ job_log = <<>>
    /\ job_submits = <<>>
    /\ job_pages = <<>>
    /\ job_reported = <<>>
    /\ job_result = NoJobResult

\* _submit_and_poll up to the loop: the POST and the deadline
Submit ==
    /\ job_pc = "submit"
    /\ job_submits' = Append(job_submits, job_params(job_limit, job_page))
    /\ \E raises \in BOOLEAN, lat \in 0..MaxLatency :
        LET h == Len(job_submits) + 1
        IN  /\ now' = now + lat
            /\ IF raises
               THEN /\ job_log' = <<JobEvent("submit", 0, job_page, "error",
                                             now, now + lat)>>
                    /\ job_result' = JobResult("APIStatusError", <<>>, 0)
                    /\ job_pc' = "done"
                    /\ UNCHANGED <<hash_value, deadline, poll_count>>
               ELSE /\ job_log' = <<JobEvent("submit", h, job_page, "",
                                             now, now + lat)>>
                    /\ hash_value' = h
                    /\ deadline' = now + lat + timeout
                    /\ poll_count' = 0
                    /\ job_pc' = "poll"
                    /\ UNCHANGED job_result
    /\ UNCHANGED <<poll_interval, timeout, job_limit, job_page, job_total,
                   job_total_pages, job_items, job_pages, job_reported>>
    /\ UNCHANGED <<limiterVars, clientVars, errorVars, listVars, kpiVars, fetchVars>>

\* one iteration of the polling loop of _submit_and_poll; a job that passed
\* returns to load_job, which decodes the page and goes on to the next one
Poll ==
    /\ job_pc = "poll"
    /\ poll_count' = poll_count + 1
    /\ \E lat \in 0..MaxLatency,
          resp \in PollResponses(job_limit, IF job_pages = <<>> THEN JobTotals
                                            ELSE {<<>>}) :
        LET t      == now + lat
            h      == poll_hash(hash_value)
            status == resp.status
            total  == resp.total
            data   == job_data(hash_value, resp.n)
            first  == job_pages = <<>>
            tot    == IF first THEN pass_total(total, data) ELSE job_total
            pages  == IF first THEN total_pages(tot, job_limit)
                      ELSE job_total_pages
            all    == job_items \o validate_job_items(data)
        IN  IF status = "error"
            THEN /\ now' = t
                 /\ job_log' = Append(job_log,
                                   JobEvent("poll", h, 0, "error", now, t))
                 /\ job_result' = JobResult("APIStatusError", <<>>, 0)
                 /\ job_pc' = "done"
                 /\ UNCHANGED <<job_page, job_total, job_total_pages,
                                job_items, job_pages, job_reported>>
            ELSE IF job_outcome(status) = "pass"
            THEN /\ now' = t
                 /\ job_log' = Append(job_log,
                                   JobEvent("poll", h, 0, status, now, t))
                 /\ job_pages' = Append(job_pages, data)
                 /\ job_reported' = IF first THEN total ELSE job_reported
                 /\ IF resp.bad
                    THEN /\ job_result' = JobResult("ValidationError", <<>>, 0)
                         /\ job_pc' = "done"
                         /\ UNCHANGED <<job_page, job_total, job_total_pages,
                                        job_items>>
                    ELSE /\ job_items' = all
                         /\ job_total' = tot
                         /\ job_total_pages' = pages
                         /\ job_page' = job_page + 1
                         /\ IF job_page + 1 <= pages
                            THEN /\ job_pc' = "submit"
                                 /\ UNCHANGED job_result
                            ELSE /\ job_pc' = "done"
                                 /\ job_result' = JobResult("returned", all, 0)
            ELSE IF job_outcome(status) = "fail"
            THEN /\ now' = t
                 /\ job_log' = Append(job_log,
                                   JobEvent("poll", h, 0, status, now, t))
                 /\ job_result' = JobResult("APIError", <<>>, 0)
                 /\ job_pc' = "done"
                 /\ UNCHANGED <<job_page, job_total, job_total_pages,
                                job_items, job_pages, job_reported>>
            ELSE IF timed_out(t, deadline)
            THEN /\ now' = t
                 /\ job_log' = Append(job_log,
                                   JobEvent("poll", h, 0, status, now, t))
                 /\ job_result' = JobResult("APITimeoutError", <<>>, timeout)
                 /\ job_pc' = "done"
                 /\ UNCHANGED <<job_page, job_total, job_total_pages,
                                job_items, job_pages, job_reported>>
            ELSE LET d == poll_sleep(poll_interval, poll_count + 1)
                 IN  /\ now' = t + d
                     /\ job_log' = job_log \o
                            <<JobEvent("poll", h, 0, status, now, t),
                              JobEvent("sleep", 0, 0, "", t, t + d)>>
                     /\ UNCHANGED <<job_page, job_total, job_total_pages,
                                    job_items, job_pages, job_reported,
                                    job_pc, job_result>>
    /\ UNCHANGED <<poll_interval, timeout, job_limit, hash_value, deadline,
                   job_submits>>
    /\ UNCHANGED <<limiterVars, clientVars, errorVars, listVars, kpiVars, fetchVars>>

NextJob == Submit \/ Poll

SpecJob == InitJob /\ [][NextJob]_vars

\* ------------------------------------------------------------------------
\* Transactions._paginated_fetch (resources/_transactions.py)
\* ------------------------------------------------------------------------

\* An endpoint holds a list of items; item i is known by its position i, and
\* fetch_server[i] tells whether model_validate accepts it.  An endpoint
\* reads "offset" either as the 1-based position of the first item wanted
\* or as the 1-based number of the page wanted.
OffsetReadings == {"items", "pages"}

\* the position of the first item of the page a request asks for
first_item(serves, off, limit) ==
    IF serves = "items" THEN off ELSE (off - 1) * limit + 1

\* data[items_key] of the response: up to limit items from the first one on
served(server, serves, off, limit) ==
    LET first == first_item(serves, off, limit)
        last == IF first + limit - 1 <= Len(server)
                THEN first + limit - 1
                ELSE Len(server)
    IN  IF last < first THEN <<>> ELSE [i \in 1..(last - first + 1) |-> first + i - 1]

\* data.get("total") of the response
served_total(server, reports) == IF reports THEN <<Len(server)>> ELSE <<>>

\* request_params of _paginated_fetch
fetch_params(limit, page) == [limit |-> limit, offset |-> page]

\* "page += 1"
next_page(page, limit) == page + 1

\* "if len(items) < limit: break"
short_page(n, limit) == n < limit

\* "if total is not None and len(all_items) >= total: break"
complete(total, count) == total # <<>> /\ count >= total[1]

\* model_validate accepts every item of the page
decodes(server, items) == \A i \in DOMAIN items : server[items[i]]

\* list_v2 or list_by_type has called _paginated_fetch
InitFetch ==
    /\ LimiterIdle
    /\ ClientIdle
    /\ ErrorIdle
    /\ ListIdle
    /\ JobIdle
    /\ KpiIdle
    /\ fetch_limit \in 1..MaxFetchLimit
    /\ fetch_server \in SeqsUpTo(BOOLEAN, MaxFetchItems)
    /\ fetch_serves \in OffsetReadings
    /\ fetch_reports \in BOOLEAN
    /\ fetch_page = 1
    /\ fetch_items = <<>>
    /\ fetch_pc = "loop"
    /\ fetch_requests = <<>>
    /\ fetch_responses = <<>>
    /\ fetch_result = NoResult

\* one iteration of the loop of _paginated_fetch
FetchPage ==
    /\ fetch_pc = "loop"
    /\ LET items == served(fetch_server, fetch_serves, fetch_page, fetch_limit)
           total == served_total(fetch_server, fetch_reports)
           all == fetch_items \o validate_all(items)
       IN  /\ fetch_requests' = Append(fetch_requests, fetch_params(fetch_limit, fetch_page))
           /\ fetch_responses' = Append(fetch_responses, [n |-> Len(items), total |-> total])
           /\ IF ~decodes(fetch_server, items)
              THEN /\ fetch_result' = [kind |-> "ValidationError", items |-> <<>>]
                   /\ fetch_pc' = "done"
                   /\ UNCHANGED <<fetch_page, fetch_items>>
              ELSE IF short_page(Len(items), fetch_limit)
              THEN /\ fetch_items' = all
                   /\ fetch_result' = [kind |-> "returned", items |-> all]
                   /\ fetch_pc' = "done"
                   /\ UNCHANGED fetch_page
              ELSE IF complete(total, Len(all))
              THEN /\ fetch_items' = all
                   /\ fetch_page' = next_page(fetch_page, fetch_limit)
                   /\ fetch_result' = [kind |-> "returned", items |-> all]
                   /\ fetch_pc' = "done"
              ELSE /\ fetch_items' = all
                   /\ fetch_page' = next_page(fetch_page, fetch_limit)
                   /\ fetch_pc' = "loop"
                   /\ UNCHANGED fetch_result
    /\ UNCHANGED <<fetch_limit, fetch_server, fetch_serves, fetch_reports>>
    /\ UNCHANGED <<now, limiterVars, clientVars, errorVars, listVars, jobVars,
                   kpiVars>>

NextFetch == FetchPage

SpecFetch == InitFetch /\ [][NextFetch]_vars

\* ------------------------------------------------------------------------
\* StatsResource (resources/_stats.py)
\* ------------------------------------------------------------------------

\* the values of the fields of a TransactionV2ListItem that the KPI methods
\* read; total is a whole amount, negative for a refund
TxnTotals == {-1, 0, 2}
TxnFields == [total : TxnTotals,
              is_recurring_plan_sale : BOOLEAN,
              is_recurring_plan_redemption : BOOLEAN]

\* a v2 transaction list: the transaction at position i has trans_id i
WithIds(fields) ==
    [i \in DOMAIN fields |->
        [trans_id |-> i, total |-> fields[i].total,
         is_recurring_plan_sale |-> fields[i].is_recurring_plan_sale,
         is_recurring_plan_redemption |->
             fields[i].is_recurring_plan_redemption]]
Datasets == {WithIds(f) : f \in SeqsUpTo(TxnFields, MaxTxns)}

\* the trans_id lists a type=wash fetch returns
WashLists == {<<>>, <<1>>, <<2, 1>>}

\* "{t.trans_id for t in self._fetch_transactions_by_type(start, end, 'wash')}"
wash_ids_of(washes) == {washes[i] : i \in DOMAIN washes}

\* the locals of total_sales before its loop
ZeroSales ==
    [total |-> 0, count |-> 0,
     recurring_plan_sales |-> 0, recurring_plan_sales_count |-> 0,
     recurring_redemptions |-> 0, recurring_redemptions_count |-> 0,
     retail |-> 0, retail_count |-> 0]

\* variant of the start of total_sales that goes on from the last result
sales_start_kept(prev) == IF prev = <<>> THEN ZeroSales ELSE prev[1]

\* total_sales starts from fresh locals on every call
sales_start(prev) == ZeroSales

\* variant of the classification with three independent tests
sales_step_independent(acc, txn) ==
    LET a == IF txn.is_recurring_plan_sale
             THEN [acc EXCEPT
                     !.recurring_plan_sales = @ + txn.total,
                     !.recurring_plan_sales_count = @ + 1]
             ELSE acc
        b == IF txn.is_recurring_plan_redemption
             THEN [a EXCEPT
                     !.recurring_redemptions = @ + txn.total,
                     !.recurring_redemptions_count = @ + 1]
             ELSE a
    IN  IF ~txn.is_recurring_plan_sale /\ ~txn.is_recurring_plan_redemption
        THEN [b EXCEPT !.retail = @ + txn.total, !.retail_count = @ + 1]
        ELSE b

\* the body of the loop of total_sales: if / elif / else on the two flags
sales_step(acc, txn) ==
    IF txn.is_recurring_plan_sale
    THEN [acc EXCEPT !.recurring_plan_sales = @ + txn.total,
                     !.recurring_plan_sales_count = @ + 1]
    ELSE IF txn.is_recurring_plan_redemption
    THEN [acc EXCEPT !.recurring_redemptions = @ + txn.total,
                     !.recurring_redemptions_count = @ + 1]
    ELSE [acc EXCEPT !.retail = @ + txn.total, !.retail_count = @ + 1]

\* "for txn in transactions"
RECURSIVE sales_loop(_, _)
sales_loop(acc, txns) ==
    IF txns = <<>> THEN acc
    ELSE sales_loop(sales_step(acc, Head(txns)), Tail(txns))

\* total and count are the sums of the three buckets
sales_result(acc) ==
    [acc EXCEPT
       !.total = acc.recurring_plan_sales + acc.recurring_redemptions
                 + acc.retail,
       !.count = acc.recurring_plan_sales_count
                 + acc.recurring_redemptions_count + acc.retail_count]

total_sales(start, txns) == sales_result(sales_loop(start, txns))

\* new_memberships_sold: "sum(1 for t in transactions if t.is_recurring_plan_sale)"
new_memberships_sold(txns) ==
    Len(SelectSeq(txns, LAMBDA t : t.is_recurring_plan_sale))

\* the locals of total_washes before its loop
ZeroWashes ==
    [total |-> 0, retail_wash_count |-> 0, member_wash_count |-> 0,
     eligible_wash_count |-> 0, free_wash_count |-> 0]

\* the split of a retail wash on its total: "if txn.total > 0 ... elif
\* txn.total == 0 ..."
wash_split(acc, txn) ==
    IF txn.total > 0
    THEN [acc EXCEPT !.eligible_wash_count = @ + 1]
    ELSE IF txn.total = 0
    THEN [acc EXCEPT !.free_wash_count = @ + 1]
    ELSE acc

\* the body of the loop of total_washes
wash_step(acc, txn, ids) ==
    IF txn.is_recurring_plan_redemption
    THEN [acc EXCEPT !.member_wash_count = @ + 1]
    ELSE IF txn.trans_id \in ids /\ ~txn.is_recurring_plan_sale
    THEN wash_split([acc EXCEPT !.retail_wash_count = @ + 1], txn)
    ELSE acc

RECURSIVE wash_loop(_, _, _)
wash_loop(acc, txns, ids) ==
    IF txns = <<>> THEN acc
    ELSE wash_loop(wash_step(acc, Head(txns), ids), Tail(txns), ids)

\* WashResult(total=member_wash_count + retail_wash_count, ...)
wash_result(acc) ==
    [acc EXCEPT !.total = acc.member_wash_count + acc.retail_wash_count]

total_washes(txns, ids) == wash_result(wash_loop(ZeroWashes, txns, ids))

\* the float 0.0 that stands for "no eligible washes"
ZeroRate == [kind |-> "float", num |-> 0, den |-> 1]

\* variant of the rate that divides without looking at the denominator
rate_unguarded(new_memberships, eligible_washes) ==
    IF eligible_washes = 0
    THEN [kind |-> "ZeroDivisionError", num |-> new_memberships, den |-> 0]
    ELSE [kind |-> "float", num |-> new_memberships, den |-> eligible_washes]

\* "new_memberships / eligible_washes if eligible_washes > 0 else 0.0"; the
\* quotient is kept as numerator and denominator
rate(new_memberships, eligible_washes) ==
    IF eligible_washes > 0
    THEN [kind |-> "float", num |-> new_memberships, den |-> eligible_washes]
    ELSE ZeroRate

\* the locals of conversion_rate before its loop
ZeroConversion ==
    [rate |-> ZeroRate, new_memberships |-> 0, eligible_washes |-> 0]

\* the body of the loop of conversion_rate
conversion_step(acc, txn, ids) ==
    IF txn.is_recurring_plan_sale
    THEN [acc EXCEPT !.new_memberships = @ + 1]
    ELSE IF txn.trans_id \in ids /\ ~txn.is_recurring_plan_redemption
            /\ txn.total > 0
    THEN [acc EXCEPT !.eligible_washes = @ + 1]
    ELSE acc

RECURSIVE conversion_loop(_, _, _)
conversion_loop(acc, txns, ids) ==
    IF txns = <<>> THEN acc
    ELSE conversion_loop(conversion_step(acc, Head(txns), ids), Tail(txns),
                         ids)

conversion_rate(txns, ids) ==
    LET acc == conversion_loop(ZeroConversion, txns, ids)
    IN  [acc EXCEPT !.rate = rate(acc.new_memberships, acc.eligible_washes)]

\* the locals of report before its loop
ZeroReport == [sales |-> ZeroSales, washes |-> ZeroWashes]

\* the body of the single loop of report
report_step(acc, txn, ids) ==
    IF txn.is_recurring_plan_sale \/ txn.is_recurring_plan_redemption
    THEN [acc EXCEPT !.sales = sales_step(@, txn)]
    ELSE LET counted == [acc EXCEPT !.sales = sales_step(@, txn)]
         IN  IF txn.trans_id \in ids
             THEN [counted EXCEPT !.washes =
                     wash_split([@ EXCEPT !.retail_wash_count = @ + 1], txn)]
             ELSE counted

RECURSIVE report_loop(_, _, _)
report_loop(acc, txns, ids) ==
    IF txns = <<>> THEN acc
    ELSE report_loop(report_step(acc, Head(txns), ids), Tail(txns), ids)

\* steps 3 to 5 and 7 of report: the results built from the counters of the
\* loop (period_start and period_end, copied from the arguments, are left out)
report(txns, ids) ==
    LET acc    == report_loop(ZeroReport, txns, ids)
        sales  == sales_result(acc.sales)
        member == sales.recurring_redemptions_count
        washes == wash_result([acc.washes EXCEPT !.member_wash_count = member])
        new    == sales.recurring_plan_sales_count
    IN  [sales |-> sales,
         washes |-> washes,
         new_memberships |-> new,
         conversion |-> [rate |-> rate(new, washes.eligible_wash_count),
                         new_memberships |-> new,
                         eligible_washes |-> washes.eligible_wash_count]]

\* what each method fetches and loops over, in program order
sales_trace == <<"fetch_v2", "loop_v2">>
memberships_trace == <<"fetch_v2", "loop_v2">>

\* variant of total_washes that fetches the wash list and each list again
washes_trace_refetching ==
    <<"fetch_wash", "fetch_v2", "fetch_wash", "fetch_v2", "loop_v2">>

washes_trace == <<"fetch_wash", "fetch_v2", "loop_v2">>
conversion_trace == <<"fetch_wash", "fetch_v2", "loop_v2">>

\* variant of report that calls the four KPI methods one after the other
report_trace_delegating ==
    sales_trace \o washes_trace \o memberships_trace \o conversion_trace

report_trace == <<"fetch_v2", "fetch_wash", "loop_v2">>

\* a StatsResource and the data its fetches return for one date range
InitStats ==
    /\ LimiterIdle
    /\ ClientIdle
    /\ ErrorIdle
    /\ ListIdle
    /\ JobIdle
    /\ FetchIdle
    /\ DateIdle
    /\ v2_transactions \in Datasets
    /\ wash_transactions \in WashLists
    /\ stats_results = [m \in Methods |-> <<>>]
    /\ stats_trace = [m \in Methods |-> <<>>]
    /\ stats_rerun = FALSE

\* one call of total_sales: its result and trace replace the earlier ones
TotalSales ==
    /\ stats_results' = [stats_results EXCEPT !["total_sales"] = <<total_sales(sales_start(stats_results["total_sales"]),
                          v2_transactions)>>]
    /\ stats_trace' = [stats_trace EXCEPT !["total_sales"] = sales_trace]
    /\ stats_rerun' = (stats_results["total_sales"] # <<>>)
    /\ UNCHANGED <<v2_transactions, wash_transactions>>
    /\ UNCHANGED <<now, limiterVars, clientVars, errorVars, listVars, jobVars,
                   dateVars, fetchVars>>

\* one call of total_washes
TotalWashes ==
    /\ stats_results' = [stats_results EXCEPT !["total_washes"] = <<total_washes(v2_transactions,
                           wash_ids_of(wash_transactions))>>]
    /\ stats_trace' = [stats_trace EXCEPT !["total_washes"] = washes_trace]
    /\ stats_rerun' = (stats_results["total_washes"] # <<>>)
    /\ UNCHANGED <<v2_transactions, wash_transactions>>
    /\ UNCHANGED <<now, limiterVars, clientVars, errorVars, listVars, jobVars,
                   dateVars, fetchVars>>

\* one call of new_memberships_sold
NewMembershipsSold ==
    /\ stats_results' = [stats_results EXCEPT !["new_memberships_sold"] = <<new_memberships_sold(v2_transactions)>>]
    /\ stats_trace' = [stats_trace EXCEPT !["new_memberships_sold"] = memberships_trace]
    /\ stats_rerun' = (stats_results["new_memberships_sold"] # <<>>)
    /\ UNCHANGED <<v2_transactions, wash_transactions>>
    /\ UNCHANGED <<now, limiterVars, clientVars, errorVars, listVars, jobVars,
                   dateVars, fetchVars>>

\* one call of conversion_rate
ConversionRate ==
    /\ stats_results' = [stats_results EXCEPT !["conversion_rate"] = <<conversion_rate(v2_transactions,
                              wash_ids_of(wash_transactions))>>]
    /\ stats_trace' = [stats_trace EXCEPT !["conversion_rate"] = conversion_trace]
    /\ stats_rerun' = (stats_results["conversion_rate"] # <<>>)
    /\ UNCHANGED <<v2_transactions, wash_transactions>>
    /\ UNCHANGED <<now, limiterVars, clientVars, errorVars, listVars, jobVars,
                   dateVars, fetchVars>>

\* one call of report
Report ==
    /\ stats_results' = [stats_results EXCEPT !["report"] = <<report(v2_transactions,
                     wash_ids_of(wash_transactions))>>]
    /\ stats_trace' = [stats_trace EXCEPT !["report"] = report_trace]
    /\ stats_rerun' = (stats_results["report"] # <<>>)
    /\ UNCHANGED <<v2_transactions, wash_transactions>>
    /\ UNCHANGED <<now, limiterVars, clientVars, errorVars, listVars, jobVars,
                   dateVars, fetchVars>>

NextStats ==
    TotalSales \/ TotalWashes \/ NewMembershipsSold \/ ConversionRate
    \/ Report

SpecStats == InitStats /\ [][NextStats]_vars

\* ------------------------------------------------------------------------
\* parse_date_range (_date_utils.py)
\* ------------------------------------------------------------------------

\* A day has DayTicks clock values; a datetime is a day and a tick of that
\* day, an aware datetime also carries its UTC offset in ticks.  The boundary
\* times of a date-only string are the tick after midnight ("T00:00:01") and
\* the last tick of the day ("T23:59:59").
DayTicks == 4
StartOfDay == 1
EndOfDay == DayTicks - 1
Offsets == {-1, 0, 1}

\* the values of start and end: a date-only string, a datetime without or
\* with tzinfo, given as an ISO string with "T" (text) or as a datetime
\* object, and a string that is no ISO-8601 date
DateInputs ==
    {[kind |-> "date", text |-> TRUE, day |-> d, tick |-> 0, off |-> 0] :
        d \in 0..MaxDay}
    \cup [kind : {"naive"}, text : BOOLEAN, day : 0..MaxDay,
          tick : 0..(DayTicks - 1), off : {0}]
    \cup [kind : {"aware"}, text : BOOLEAN, day : 0..MaxDay,
          tick : 0..(DayTicks - 1), off : Offsets]
    \cup {[kind |-> "bad", text |-> TRUE, day |-> 0, tick |-> 0, off |-> 0]}

\* tz: <<>> for None, <<o>> for a zone that is o ticks ahead of UTC
Zones == {<<>>} \cup {<<o>> : o \in Offsets \ {0}}

\* datetime.fromisoformat(value) raises ValueError
unparsable(value) == value.kind = "bad"

\* the wall-clock reading of value, with the boundary time of its role when
\* it is a date-only string
wall_clock(value, role) ==
    IF value.kind = "date"
    THEN value.day * DayTicks
         + (IF role = "start" THEN StartOfDay ELSE EndOfDay)
    ELSE value.day * DayTicks + value.tick

\* _normalize: the UTC reading of value
normalize(value, tz, role) ==
    IF value.kind = "aware" THEN wall_clock(value, role) - value.off
    ELSE IF tz # <<>> THEN wall_clock(value, role) - tz[1]
    ELSE wall_clock(value, role)

\* variant of the range test that rejects an empty range
range_invalid_or_empty(start_dt, end_dt) == start_dt >= end_dt

\* "if start_dt > end_dt"
range_invalid(start_dt, end_dt) == start_dt > end_dt

parse_date_range(start, end, tz) ==
    IF unparsable(start) \/ unparsable(end)
    THEN [kind |-> "ValueError: invalid isoformat",
          start_dt |-> 0, end_dt |-> 0]
    ELSE LET start_dt == normalize(start, tz, "start")
             end_dt   == normalize(end, tz, "end")
         IN  IF range_invalid(start_dt, end_dt)
             THEN [kind |-> "ValueError: start must be before or equal to end",
                   start_dt |-> 0, end_dt |-> 0]
             ELSE [kind |-> "returned", start_dt |-> start_dt,
                   end_dt |-> end_dt]

\* parse_date_range(start, end, tz=tz) is about to be called
InitDate ==
    /\ LimiterIdle
    /\ ClientIdle
    /\ ErrorIdle
    /\ ListIdle
    /\ JobIdle
    /\ FetchIdle
    /\ StatsIdle
    /\ date_start \in DateInputs
    /\ date_end \in DateInputs
    /\ date_tz \in Zones
    /\ date_result = NoDateResult
    /\ utc_now = 0
    /\ resolve_result = NoParams

ParseDateRange ==
    /\ date_result = NoDateResult
    /\ date_result' = parse_date_range(date_start, date_end, date_tz)
    /\ UNCHANGED <<date_start, date_end, date_tz, utc_now, resolve_result>>
    /\ UNCHANGED <<now, limiterVars, clientVars, errorVars, listVars, jobVars,
                   statsVars, fetchVars>>

NextDate == ParseDateRange

SpecDate == InitDate /\ [][NextDate]_vars

\* ------------------------------------------------------------------------
\* StatsResource._resolve_dates (resources/_stats.py)
\* ------------------------------------------------------------------------

\* datetime.now carries fractions of a second: the current time is counted
\* in half ticks since the epoch, which is tick 0 of day 0 (UTC)
NowChoices == 0..(2 * (MaxDay + 1) * DayTicks + 1)

\* a whole-tick UTC datetime in half ticks
half_ticks(dt) == 2 * dt

\* int(dt.timestamp()): the whole ticks since the epoch, rounded towards 0
unix_timestamp(h) == IF h >= 0 THEN h \div 2 ELSE -((-h) \div 2)

\* "if end_dt > now: end_dt = now"
capped(end_dt, current) ==
    IF half_ticks(end_dt) > current THEN current ELSE half_ticks(end_dt)

\* _resolve_dates: the query parameters, or the ValueError of parse_date_range
resolve_dates(start, end, tz, current) ==
    LET parsed == parse_date_range(start, end, tz)
    IN  IF parsed.kind # "returned"
        THEN [kind |-> parsed.kind, startDate |-> 0, endDate |-> 0]
        ELSE [kind |-> "returned",
              startDate |-> unix_timestamp(half_ticks(parsed.start_dt)),
              endDate |-> unix_timestamp(capped(parsed.end_dt, current))]

\* a KPI method is about to call _resolve_dates(start, end)
InitResolve ==
    /\ LimiterIdle
    /\ ClientIdle
    /\ ErrorIdle
    /\ ListIdle
    /\ JobIdle
    /\ FetchIdle
    /\ StatsIdle
    /\ date_start \in DateInputs
    /\ date_end \in DateInputs
    /\ date_tz \in Zones
    /\ date_result = NoDateResult
    /\ utc_now \in NowChoices
    /\ resolve_result = NoParams

ResolveDates ==
    /\ resolve_result = NoParams
    /\ date_result' = parse_date_range(date_start, date_end, date_tz)
    /\ resolve_result' = resolve_dates(date_start, date_end, date_tz, utc_now)
    /\ UNCHANGED <<date_start, date_end, date_tz, utc_now>>
    /\ UNCHANGED <<now, limiterVars, clientVars, errorVars, listVars, jobVars,
                   statsVars, fetchVars>>

NextResolve == ResolveDates

SpecResolve == InitResolve /\ [][NextResolve]_vars

\* ------------------------------------------------------------------------
\* Properties of the RateLimiter (checked under SpecRL)
\* ------------------------------------------------------------------------

\* the timestamps of ts that are still inside the window that ends at t
InWindow(ts, t, w) == SelectSeq(ts, LAMBDA x: x > t - w)

\* C1: the deque never holds more than max_requests timestamps, and right
\* after acquire() or available every retained timestamp lies within
\* [now - window_seconds, now].
C1_WindowInvariant ==
    /\ Len(timestamps) <= max_requests
    /\ op \in {"acquire", "available"} =>
          \A i \in DOMAIN timestamps :
              /\ now - window_seconds <= timestamps[i]
              /\ timestamps[i] <= now

\* an acquire() that found a full window after older entries had expired
C1_Witness ==
    /\ op = "acquire"
    /\ Len(timestamps) = max_requests
    /\ Len(before) = max_requests
    /\ max_requests >= 2
    /\ now > window_seconds
    /\ ret > 0

\* C2: the wait returned by acquire() is never negative, and it is 0 exactly
\* when fewer than max_requests timestamps were still inside the window at
\* the time of the call; otherwise it is strictly positive.
C2_WaitZeroIffBelowLimit ==
    op = "acquire" =>
        /\ ret >= 0
        /\ (ret = 0) <=> (Len(InWindow(before, now, window_seconds)) < max_requests)

\* an acquire() that was refused, with a wait shorter than the whole window
C2_Witness ==
    /\ op = "acquire"
    /\ ret > 0
    /\ ret < window_seconds
    /\ Len(InWindow(before, now, window_seconds)) = max_requests

\* C3: at capacity, acquire() records nothing (the deque is the old deque
\* without its expired entries) and returns oldest + window_seconds - now.
C3_AtCapacityNoRecord ==
    (op = "acquire" /\ Len(InWindow(before, now, window_seconds)) = max_requests) =>
        /\ timestamps = InWindow(before, now, window_seconds)
        /\ ret = InWindow(before, now, window_seconds)[1] + window_seconds - now

\* an acquire() at capacity whose oldest retained timestamp is in the past
C3_Witness ==
    /\ op = "acquire"
    /\ Len(InWindow(before, now, window_seconds)) = max_requests
    /\ timestamps[1] < now
    /\ timestamps = before

\* C4 as stated: once the clock is past oldest + window_seconds, oldest being
\* the oldest retained timestamp, available returns max_requests.
C4_AsStated ==
    (op = "available" /\ before # <<>> /\ now > before[1] + window_seconds) =>
        ret = max_requests

\* C4 amended: once the clock is past newest + window_seconds, newest being
\* the newest retained timestamp, available returns max_requests.
C4_AvailableRecovers ==
    (op = "available" /\ before # <<>> /\ now > before[Len(before)] + window_seconds) =>
        ret = max_requests

\* available read after a full window of admitted attempts has expired
C4_Witness ==
    /\ op = "available"
    /\ Len(before) = max_requests
    /\ max_requests >= 2
    /\ now > before[Len(before)] + window_seconds
    /\ ret = max_requests

\* C5: reset() empties the window, so that available is max_requests and the
\* next acquire() returns 0; available records nothing and equals
\* max_requests minus the number of timestamps inside the window; an admitted
\* acquire() lowers available, read at the same time, by exactly 1.
C5_Step ==
    /\ op' = "reset" =>
          /\ timestamps' = <<>>
          /\ available(timestamps', now', max_requests, window_seconds) = max_requests
    /\ (timestamps = <<>> /\ op' \in {"tick", "available"}) => timestamps' = <<>>
    /\ (timestamps = <<>> /\ op' = "acquire") => ret' = 0
    /\ op' = "available" =>
          /\ timestamps' = InWindow(timestamps, now, window_seconds)
          /\ ret' = max_requests - Len(InWindow(timestamps, now, window_seconds))
    /\ (op' = "acquire" /\ ret' = 0) =>
          available(timestamps', now', max_requests, window_seconds)
              = available(timestamps, now, max_requests, window_seconds) - 1

C5_ResetAndAvailable == [][C5_Step]_vars

\* reset() called on a full window
C5_Witness ==
    /\ op = "reset"
    /\ Len(before) = max_requests
    /\ timestamps = <<>>
    /\ before[1] < now

\* C31: when acquire() returned a positive wait w at time t and no acquire()
\* has been admitted since, an acquire() made at t + w or later is admitted:
\* it records the attempt and returns 0.
C31_Step ==
    (/\ op' = "acquire"
     /\ refusal # <<>>
     /\ ~refusal[1].met
     /\ now >= refusal[1].t + refusal[1].w) =>
        /\ ret' = 0
        /\ timestamps' = Append(InWindow(timestamps, now, window_seconds), now)

C31_WaitSufficient == [][C31_Step]_vars

\* an acquire() admitted at the very time the returned wait had elapsed, on
\* a window that was still full when the call was made
C31_Witness ==
    /\ op = "acquire"
    /\ ret = 0
    /\ refusal # <<>>
    /\ refusal[1].met
    /\ now = refusal[1].t + refusal[1].w
    /\ max_requests >= 2
    /\ Len(before) = max_requests
    /\ before[1] + window_seconds = now

\* ------------------------------------------------------------------------
\* Properties of make_status_error (checked under SpecErr)
\* ------------------------------------------------------------------------

\* the fixed table of error kinds
TableKind(code) ==
    CASE code \in {400, 422} -> "ValidationError"
      [] code = 403 -> "AuthError"
      [] code = 404 -> "NotFoundError"
      [] code = 429 -> "RateLimitError"
      [] code >= 500 -> "ServerError"
      [] OTHER -> "APIStatusError"

\* C10: the error built for a status code has the kind the fixed table gives
\* for that code, and it carries the status code of the response.
C10_StatusTable ==
    error # NoError =>
        /\ error.kind = TableKind(response)
        /\ error.status_code = response

\* an unmapped client error code has been turned into a plain APIStatusError
C10_Witness ==
    /\ error.kind = "APIStatusError"
    /\ response = 418
    /\ error.status_code = 418

\* ------------------------------------------------------------------------
\* Properties of SonnysClient._request (checked under SpecReq)
\* ------------------------------------------------------------------------

\* the HTTP exchanges and the backoff sleeps of the current call, in order
HttpEvents == SelectSeq(trace, LAMBDA ev : ev.e = "http")
BackoffSleeps == SelectSeq(trace, LAMBDA ev : ev.e = "backoff_sleep")
AcquireEvents == SelectSeq(trace, LAMBDA ev : ev.e = "acquire")

Is429(ev) == ev.e = "http" /\ ev.r = "status" /\ ev.v = 429

\* C6: a call that returns has seen k 429 responses (0 <= k <= max_retries)
\* followed by a response with status < 400; it made k+1 HTTP requests and
\* slept k backoff delays 1, 2, 4, ..., 2^(k-1), in that order, in every call
\* on the client; a response with status < 400 always ends the call by
\* returning that response.
C6_BackoffSequence ==
    /\ (pc = "done" /\ outcome.kind = "returned") =>
          LET k == Len(HttpEvents) - 1
          IN  /\ k >= 0
              /\ k <= max_retries
              /\ \A i \in 1..k : Is429(HttpEvents[i])
              /\ HttpEvents[k + 1].r = "status"
              /\ HttpEvents[k + 1].v < 400
              /\ outcome.status_code = HttpEvents[k + 1].v
              /\ Len(BackoffSleeps) = k
              /\ \A i \in 1..k : BackoffSleeps[i].v = 2 ^ (i - 1)
    /\ \A i \in DOMAIN trace :
          (trace[i].e = "http" /\ trace[i].r = "status" /\ trace[i].v < 400) =>
              /\ i = Len(trace)
              /\ pc = "done"
              /\ outcome = [kind |-> "returned", status_code |-> trace[i].v]

\* the second call on a client returned after max_retries = 3 responses 429
C6_Witness ==
    /\ pc = "done"
    /\ outcome.kind = "returned"
    /\ calls = 2
    /\ max_retries = 3
    /\ Len(HttpEvents) = 4
    /\ Len(BackoffSleeps) = 3

\* C7: when all max_retries+1 attempts are answered 429 the call raises
\* RateLimitError (status 429) after exactly max_retries+1 HTTP requests and
\* max_retries backoff sleeps, the last 429 being followed by no sleep.
C7_RetriesExhausted ==
    /\ (Len(HttpEvents) = max_retries + 1 /\ \A i \in DOMAIN HttpEvents : Is429(HttpEvents[i])) =>
          /\ pc = "done"
          /\ outcome = [kind |-> "RateLimitError", status_code |-> 429]
          /\ Len(BackoffSleeps) = max_retries
          /\ trace[Len(trace)].e = "http"
    /\ (pc = "done" /\ outcome.kind = "RateLimitError") =>
          /\ Len(HttpEvents) = max_retries + 1
          /\ \A i \in DOMAIN HttpEvents : Is429(HttpEvents[i])

\* a call with max_retries = 2 ended in RateLimitError
C7_Witness ==
    /\ pc = "done"
    /\ outcome.kind = "RateLimitError"
    /\ max_retries = 2
    /\ Len(HttpEvents) = 3
    /\ Len(BackoffSleeps) = 2

\* the error that matches a failed HTTP exchange
MatchingError(ev) ==
    IF ev.r = "ConnectionError" THEN [kind |-> "APIConnectionError", status_code |-> 0]
    ELSE IF ev.r = "Timeout" THEN [kind |-> "APITimeoutError", status_code |-> 0]
    ELSE [kind |-> TableKind(ev.v), status_code |-> ev.v]

\* C8: a connection failure, a timeout or a status >= 400 other than 429 is
\* the last event of its call and ends it with the matching error, on the
\* first attempt as well as on a retry; every exchange that is followed by
\* anything else in the call is a 429.
C8_FailFast ==
    \A i \in DOMAIN trace :
        trace[i].e = "http" =>
            /\ (trace[i].r # "status" \/ (trace[i].v >= 400 /\ trace[i].v # 429)) =>
                  /\ i = Len(trace)
                  /\ pc = "done"
                  /\ outcome = MatchingError(trace[i])
            /\ i < Len(trace) => Is429(trace[i])

\* a server error on the retry that followed two 429 responses
C8_Witness ==
    /\ pc = "done"
    /\ outcome.kind = "ServerError"
    /\ Len(HttpEvents) = 3
    /\ Len(BackoffSleeps) = 2

\* C9: every HTTP attempt is preceded by exactly one acquire(); when it
\* returned a positive wait the client sleeps exactly that long between the
\* acquire() and the request, and when it returned 0 the request follows
\* the acquire() directly.
C9_AcquireBeforeEachAttempt ==
    /\ Len(AcquireEvents) = Len(HttpEvents) + (IF pc = "send" THEN 1 ELSE 0)
    /\ \A i \in DOMAIN trace :
          /\ trace[i].e = "http" =>
                /\ i >= 2
                /\ \/ trace[i - 1] = Event("acquire", 0, "-")
                   \/ /\ i >= 3
                      /\ trace[i - 1].e = "limiter_sleep"
                      /\ trace[i - 2].e = "acquire"
                      /\ trace[i - 2].v > 0
                      /\ trace[i - 1].v = trace[i - 2].v
          /\ (trace[i].e = "acquire" /\ trace[i].v > 0) =>
                /\ i < Len(trace)
                /\ trace[i + 1] = Event("limiter_sleep", trace[i].v, "-")
          /\ trace[i].e = "limiter_sleep" =>
                /\ i >= 2
                /\ trace[i - 1] = Event("acquire", trace[i].v, "-")

\* a call whose retry after a 429 had to sleep a limiter wait before sending
C9_Witness ==
    /\ pc = "done"
    /\ Len(HttpEvents) = 2
    /\ \E i \in DOMAIN trace :
          /\ i > 3
          /\ trace[i].e = "limiter_sleep"
          /\ trace[i].v > 0

\* C30 as stated: every request that is sent had its attempt recorded in the
\* limiter's window by the acquire() before it, also when that acquire()
\* returned a positive wait, and no more than max_requests requests are sent
\* within window_seconds (sent_at holds the sends of the window that ends
\* with the latest send).
C30_AsStated ==
    /\ pc = "send"
       => /\ timestamps # <<>>
          /\ timestamps[Len(timestamps)] = now - limiter_sleep(ret)
    /\ Len(sent_at) <= max_requests

LimiterSleeps == SelectSeq(trace, LAMBDA ev : ev.e = "limiter_sleep")

\* the errors of _exceptions.py that _request raises
TypedErrors ==
    {"APIConnectionError", "APITimeoutError", "AuthError", "NotFoundError",
     "ValidationError", "RateLimitError", "ServerError", "APIStatusError"}

InRequest == pc \in {"limit", "send"}

\* the call has made at most max_retries+1 requests, max_retries backoff
\* sleeps and max_retries+1 limiter sleeps (so its trace, which holds these
\* and one acquire() per attempt, has a bounded length); while it is not
\* over it has a next step; and when it is over it has returned a response
\* with status < 400 or raised a typed error
Bounded ==
    /\ Len(HttpEvents) <= max_retries + 1
    /\ Len(BackoffSleeps) <= max_retries
    /\ Len(LimiterSleeps) <= max_retries + 1
    /\ Len(AcquireEvents) <= max_retries + 1
    /\ Len(trace) = Len(HttpEvents) + Len(BackoffSleeps)
                       + Len(LimiterSleeps) + Len(AcquireEvents)
    /\ attempt <= max_retries
    /\ InRequest => ENABLED (RateLimitCheck \/ SendRequest)
    /\ pc = "done" =>
          \/ outcome.kind = "returned" /\ outcome.status_code < 400
          \/ outcome.kind \in TypedErrors

\* every step of a call that is not over adds to its trace
Advances == InRequest => Len(trace') > Len(trace)

\* C34: a call of _request ends, whatever the responses and the limiter
\* waits are, after at most max_retries+1 HTTP requests, max_retries backoff
\* sleeps and max_retries+1 limiter sleeps, by returning a response with
\* status < 400 or by raising a typed error, never by leaving the loop: the
\* trace of a call has a bounded length, every step of the call makes it
\* longer, and the call always has a next step until it is over.
C34_Terminates ==
    /\ []Bounded
    /\ [][Advances]_vars

\* C34, the same end of the call as a liveness property, for SpecReqFair
C34_EventuallyDone == InRequest ~> (pc = "done")

\* a call that used its whole budget: max_retries+1 requests, each after a
\* limiter sleep, and max_retries backoff sleeps, ended by a typed error
C34_Witness ==
    /\ pc = "done"
    /\ max_retries = 2
    /\ Len(HttpEvents) = 3
    /\ Len(BackoffSleeps) = 2
    /\ Len(LimiterSleeps) >= 2
    /\ outcome.kind = "RateLimitError"

\* ------------------------------------------------------------------------
\* Properties of ListableResource.list (checked under SpecList)
\* ------------------------------------------------------------------------

CeilDiv(a, b) == (a + b - 1) \div b

\* the caller's params leave limit and offset to the pagination loop
LeavesPaging == "limit" \notin DOMAIN params /\ "offset" \notin DOMAIN params

\* the decoded items of all received pages, in arrival order
RECURSIVE PagesInOrder(_)
PagesInOrder(resps) ==
    IF resps = <<>>
    THEN <<>>
    ELSE LET last == resps[Len(resps)].items
         IN  PagesInOrder(SubSeq(resps, 1, Len(resps) - 1))
                 \o [i \in DOMAIN last |-> [model |-> last[i]]]

\* every received page reports the total t
AllReport(t) ==
    /\ list_responses # <<>>
    /\ \A i \in DOMAIN list_responses : list_responses[i].total = <<t>>

\* C11: when every response reports the same total T >= 1, a list() that
\* returns has made exactly ceil(T/P) requests with limit P and offsets
\* 1, 1+P, 1+2P, ... and returns the decoded items of all pages in arrival
\* order (the call leaves limit and offset to the loop).
C11_PagesAndOffsets ==
    \A T \in 1..(MaxTotal + 1) :
        (paginated /\ LeavesPaging /\ list_pc = "done"
            /\ list_result.kind = "returned" /\ AllReport(T)) =>
            /\ Len(list_requests) = CeilDiv(T, default_limit)
            /\ \A k \in DOMAIN list_requests :
                  /\ list_requests[k].limit = default_limit
                  /\ list_requests[k].offset = 1 + (k - 1) * default_limit
            /\ list_result.items = PagesInOrder(list_responses)

\* three pages of page size 1 with different items have been put together
C11_Witness ==
    /\ paginated
    /\ LeavesPaging
    /\ list_pc = "done"
    /\ list_result.kind = "returned"
    /\ AllReport(3)
    /\ default_limit = 1
    /\ Len(list_requests) = 3
    /\ list_result.items = <<[model |-> 2], [model |-> 1], [model |-> 2]>>

\* C12: when the endpoint reports total = 0 the call ends after exactly one
\* request, and returns the empty sequence of the page it received.
C12_TotalZero ==
    (paginated /\ list_responses # <<>> /\ list_responses[1].total = <<0>>) =>
        /\ list_pc = "done"
        /\ Len(list_requests) = 1
        /\ Len(list_responses) = 1
        /\ list_responses[1].items = <<>> =>
              list_result = [kind |-> "returned", items |-> <<>>]

\* an empty page with total = 0 was received with the largest page size
C12_Witness ==
    /\ paginated
    /\ list_pc = "done"
    /\ default_limit = MaxPageSize
    /\ list_responses = <<[items |-> <<>>, total |-> <<0>>]>>
    /\ list_result = [kind |-> "returned", items |-> <<>>]

\* C13: a non-paginated list() makes exactly one request, whose params are
\* the caller's params and nothing else, and returns every item of the
\* response, decoded, in order.
C13_NonPaginated ==
    (~paginated /\ list_pc = "done") =>
        /\ Len(list_requests) = 1
        /\ list_requests[1] = params
        /\ list_result.kind = "returned" =>
              /\ Len(list_responses) = 1
              /\ list_result.items = PagesInOrder(list_responses)
        /\ (list_responses # <<>>
               /\ \A i \in DOMAIN list_responses[1].items : list_responses[1].items[i] # 0) =>
              list_result.kind = "returned"

\* a non-paginated list(first_name=...) returned three items
C13_Witness ==
    /\ ~paginated
    /\ list_pc = "done"
    /\ params = [first_name |-> 7]
    /\ list_result.kind = "returned"
    /\ list_result.items = <<[model |-> 1], [model |-> 2], [model |-> 1]>>

\* C14 as stated: without a total, pages keep being requested until a short
\* page arrives: a full page without a total is followed by another request.
C14_AsStated ==
    \A i \in DOMAIN list_responses :
        (paginated
            /\ list_responses[i].total = <<>>
            /\ Len(list_responses[i].items) = default_limit
            /\ \A j \in DOMAIN list_responses[i].items : list_responses[i].items[j] # 0) =>
            (i < Len(list_responses) \/ list_pc # "done")

\* C14 amended: the first response that reports no total ends the fetching,
\* whether its page is short or full: no request follows it.
C14_NoTotalStops ==
    \A i \in DOMAIN list_responses :
        (paginated /\ list_responses[i].total = <<>>) =>
            /\ i = Len(list_responses)
            /\ Len(list_requests) = i
            /\ list_pc = "done"

\* the second page was full and reported no total, and list() returned
C14_Witness ==
    /\ paginated
    /\ list_pc = "done"
    /\ list_result.kind = "returned"
    /\ Len(list_responses) = 2
    /\ list_responses[2].total = <<>>
    /\ Len(list_responses[2].items) = default_limit

\* the received pages that hold an item the model rejects
BadPages ==
    {i \in DOMAIN list_responses :
        \E k \in DOMAIN list_responses[i].items :
            list_responses[i].items[k] = 0}

\* C29: when an item of a page of a paginated list cannot be decoded, the
\* decode error is what the caller gets: that page is the last one
\* received, its request is the last one sent (no retry, no further page),
\* and the result holds none of the items decoded before.
C29_DecodeFailureSurfaces ==
    paginated
    => /\ \A i \in BadPages :
            /\ i = Len(list_responses)
            /\ Len(list_requests) = i
            /\ list_pc = "done"
            /\ list_result = [kind |-> "ValidationError", items |-> <<>>]
       /\ list_result.kind = "ValidationError"
          => Len(list_responses) \in BadPages

C29_Witness ==
    /\ paginated
    /\ list_result.kind = "ValidationError"
    /\ Len(list_responses) = 2
    /\ Len(list_requests) = 2
    /\ Len(all_items) = 2
    /\ list_result.items = <<>>

\* the largest total the pages received so far have reported (0 if none has)
MaxReported ==
    LET reported == {list_responses[i].total[1] :
                        i \in {j \in DOMAIN list_responses :
                                  list_responses[j].total # <<>>}}
    IN  IF reported = {} THEN 0
        ELSE CHOOSE t \in reported : \A u \in reported : u <= t

\* the number of requests of a paginated list() is at most
\* max(1, ceil(T / page size)), T being the largest total reported, and a
\* list() that is over has made at least one request
RequestsBounded ==
    paginated =>
        /\ \/ Len(list_requests) <= 1
           \/ Len(list_requests) <= CeilDiv(MaxReported, default_limit)
        /\ MaxReported <= MaxTotal
        /\ list_pc = "done" => Len(list_requests) >= 1

\* C37: list() on a paginated endpoint ends for every server whose totals
\* are bounded by T, also when the total changes from page to page and
\* pages are short or empty, after at least 1 and at most
\* max(1, ceil(T / page size)) requests.
C37_ListTerminates ==
    /\ []RequestsBounded
    /\ <>(list_pc = "done")

\* a list() that made the most requests its totals allow although the total
\* changed from page to page and a page came back empty
C37_Witness ==
    /\ paginated
    /\ list_pc = "done"
    /\ list_result.kind = "returned"
    /\ Len(list_requests) = CeilDiv(MaxTotal, default_limit)
    /\ Len(list_requests) >= 3
    /\ list_responses[1].items = <<>>
    /\ list_responses[1].total # list_responses[2].total
    /\ list_responses[2].total # list_responses[3].total

\* C35 as stated: on a paginated endpoint every request carries the page
\* size as limit and the k-th request carries the offset 1 + (k-1) * page
\* size, whatever the extra params are, also when they are named limit or
\* offset; the extra params are sent alongside them.
C35_AsStated ==
    paginated =>
        \A k \in DOMAIN list_requests :
            /\ DOMAIN list_requests[k] = DOMAIN params \cup {"limit", "offset"}
            /\ list_requests[k]["limit"] = default_limit
            /\ list_requests[k]["offset"] = 1 + (k - 1) * default_limit
            /\ \A key \in DOMAIN params \ {"limit", "offset"} :
                  list_requests[k][key] = params[key]

\* ------------------------------------------------------------------------
\* Properties of load_job and _submit_and_poll (checked under SpecJob)
\* ------------------------------------------------------------------------

\* the positions of the polls and of the sleeps in the log of the current
\* _submit_and_poll
PollIdx == {i \in DOMAIN job_log : job_log[i].e = "poll"}
SleepIdx == {i \in DOMAIN job_log : job_log[i].e = "sleep"}

\* a poll that came back with a status that is neither pass nor fail
NonTerminal(ev) == ev.e = "poll" /\ ev.status = "working"

\* the current _submit_and_poll is over (it returned or raised)
PollerFinished == job_log # <<>> /\ job_pc # "poll"

\* the decoded items of pages k..Len(pages), concatenated in page order
RECURSIVE DecodedFrom(_, _)
DecodedFrom(pages, k) ==
    IF k > Len(pages) THEN <<>>
    ELSE [i \in DOMAIN pages[k] |-> [model |-> pages[k][i]]]
         \o DecodedFrom(pages, k + 1)

\* C15: when the first status poll returns pass, the call has made exactly
\* two HTTP calls, the POST submission and one GET poll that carries the hash
\* the submission returned, it has not slept, and the items of that response
\* are what the caller gets, decoded (they are the result of a one-page
\* load_job).
C15_FirstPollPass ==
    (Len(job_log) >= 2 /\ job_log[2].e = "poll" /\ job_log[2].status = "pass")
    => /\ Len(job_log) = 2
       /\ job_log[1].e = "submit"
       /\ job_log[1].h = Len(job_submits)
       /\ job_log[2].h = job_log[1].h
       /\ SleepIdx = {}
       /\ job_pages # <<>>
       /\ job_result.kind # "ValidationError"
          => /\ job_items = DecodedFrom(job_pages, 1)
             /\ (Len(job_submits) = 1 /\ job_pc = "done")
                => job_result = JobResult("returned",
                                          DecodedFrom(job_pages, 1), 0)

C15_Witness ==
    /\ job_pc = "done"
    /\ job_result.kind = "returned"
    /\ Len(job_result.items) = 2
    /\ Len(job_submits) = 1
    /\ Len(job_log) = 2
    /\ job_log[2].status = "pass"

\* C16: a poll that returns status fail, wherever it stands in the poll
\* sequence, is the last thing the poller does: APIError is raised, so no
\* poll, sleep or submission follows it and nothing is returned.
C16_FailRaises ==
    \A i \in PollIdx :
        job_log[i].status = "fail"
        => /\ i = Len(job_log)
           /\ job_pc = "done"
           /\ job_result = JobResult("APIError", <<>>, 0)
           /\ job_log[1].h = Len(job_submits)

C16_Witness ==
    /\ job_pc = "done"
    /\ job_result.kind = "APIError"
    /\ Len(job_log) = 6
    /\ job_log[6].status = "fail"
    /\ NonTerminal(job_log[2])
    /\ NonTerminal(job_log[4])

\* C17: the poller sleeps exactly once, for poll_interval, between every two
\* consecutive polls of a handle, and only there: a sleep follows a poll with
\* a non-terminal status and is followed by the next poll, and a run that
\* ended after n polls holds n-1 sleeps.
C17_SleepBetweenPolls ==
    /\ \A i \in SleepIdx :
        /\ job_log[i].c - job_log[i].t = poll_interval
        /\ i > 1
        /\ NonTerminal(job_log[i - 1])
        /\ i < Len(job_log) => job_log[i + 1].e = "poll"
        /\ i = Len(job_log) => job_pc = "poll"
    /\ \A i \in PollIdx :
        /\ i > 2 => job_log[i - 1].e = "sleep" /\ job_log[i - 2].e = "poll"
        /\ i > 2 => job_log[i].h = job_log[i - 2].h
        /\ i <= 2 => i = 2 /\ job_log[1].e = "submit"
    /\ (PollerFinished /\ PollIdx # {})
       => Cardinality(SleepIdx) = Cardinality(PollIdx) - 1

C17_Witness ==
    /\ PollerFinished
    /\ Cardinality(PollIdx) = 3
    /\ Cardinality(SleepIdx) = 2
    /\ job_log[Len(job_log)].status = "pass"

\* C18 as stated: no status poll is issued at a time at or past the deadline.
C18_AsStated ==
    \A i \in PollIdx : job_log[i].t < deadline

\* C18: the deadline is the time the submission completed plus timeout, and
\* it is tested after each poll that came back with a non-terminal status:
\* APITimeoutError carrying timeout is raised exactly when such a poll
\* completes at or past the deadline, nothing follows it, and a poll is
\* issued only while every earlier poll completed before the deadline, hence
\* before deadline + poll_interval.
C18_DeadlineChecked ==
    /\ (job_log # <<>> /\ job_log[1].status # "error")
       => deadline = job_log[1].c + timeout
    /\ \A i \in PollIdx :
        /\ (NonTerminal(job_log[i]) /\ job_log[i].c >= deadline)
           => /\ i = Len(job_log)
              /\ job_pc = "done"
              /\ job_result = JobResult("APITimeoutError", <<>>, timeout)
        /\ \A j \in PollIdx : j < i => job_log[j].c < deadline
        /\ job_log[i].t < deadline + poll_interval
    /\ job_result.kind = "APITimeoutError"
       => /\ NonTerminal(job_log[Len(job_log)])
          /\ job_log[Len(job_log)].c >= deadline
          /\ job_result.timeout = timeout

C18_Witness ==
    /\ job_result.kind = "APITimeoutError"
    /\ Cardinality(PollIdx) >= 2
    /\ job_log[Len(job_log)].t >= deadline
    /\ job_log[1].c > job_log[1].t

JobMax(a, b) == IF a >= b THEN a ELSE b

\* C19: a load_job that starts at offset 1 and returns has run the poller
\* once per page for max(1, ceil(total / limit)) pages, total being the total
\* the first job's pass response reports or, when it reports none, the number
\* of items of that response; submission k carries offset k and the limit,
\* and the result is the decoded items of the pages in page order.
C19_PagesInOrder ==
    (job_pc = "done" /\ job_result.kind = "returned"
        /\ job_submits[1].offset = 1)
    => LET total == IF job_reported = <<>> THEN Len(job_pages[1])
                    ELSE job_reported[1]
       IN  /\ Len(job_submits) = JobMax(1, CeilDiv(total, job_limit))
           /\ Len(job_pages) = Len(job_submits)
           /\ \A k \in DOMAIN job_submits :
                job_submits[k] = [limit |-> job_limit, offset |-> k]
           /\ job_result.items = DecodedFrom(job_pages, 1)

C19_Witness ==
    /\ job_pc = "done"
    /\ job_result.kind = "returned"
    /\ job_submits[1].offset = 1
    /\ job_limit = 2
    /\ job_reported = <<3>>
    /\ Len(job_submits) = 2
    /\ Len(job_result.items) = 3

\* the poller has just raised for the page it was working on: the job
\* reported fail, or the deadline test fired
PageFailed ==
    /\ PollIdx # {}
    /\ LET last == job_log[Len(job_log)]
       IN  \/ last.e = "poll" /\ last.status = "fail"
           \/ NonTerminal(last) /\ last.c >= deadline

\* load_job has ended with the error of the failing page, without items,
\* and the failing page's submission is the last one
Aborted ==
    /\ PageFailed
       => /\ job_pc = "done"
          /\ job_result.kind =
                IF job_log[Len(job_log)].status = "fail" THEN "APIError"
                ELSE "APITimeoutError"
          /\ job_result.items = <<>>
          /\ Len(job_submits) = Len(job_pages) + 1
          /\ job_log[1].h = Len(job_submits)
    /\ job_result.kind \in {"APIError", "APITimeoutError"} => PageFailed

\* C20: when the job of a page reports fail or times out, load_job ends with
\* that error (APIError for fail, APITimeoutError for the deadline), holds
\* no items in its result, whatever the earlier pages delivered, and the
\* failing page's submission is the last one: no step after the end of
\* load_job adds a submission.
C20_PageFailureAborts ==
    /\ []Aborted
    /\ [][job_pc = "done" => job_submits' = job_submits]_vars

C20_Witness ==
    /\ job_result.kind = "APITimeoutError"
    /\ Len(job_pages) = 1
    /\ Len(job_items) >= 1
    /\ job_total_pages = 3
    /\ Len(job_submits) = 2
    /\ job_result.items = <<>>

\* a poll that ended the life of its handle: it came back pass or fail, its
\* _request raised, or it was followed by the timeout
EndsHandle(ev) ==
    /\ ev.e = "poll"
    /\ \/ ev.status \in {"pass", "fail", "error"}
       \/ ev.c >= deadline

\* the log of the current _submit_and_poll starts with its submission; every
\* poll carries the handle that submission returned, which is the handle of
\* the latest submission of the load_job, and is issued after the submission
\* completed; a poll that ends the handle is the last event; and every
\* exchange or sleep begins when the one before it has completed
HandleScoped ==
    job_log # <<>> =>
        /\ job_log[1].e = "submit"
        /\ \A i \in PollIdx :
              /\ i > 1
              /\ job_log[1].status # "error"
              /\ job_log[i].h = job_log[1].h
              /\ job_log[i].h = Len(job_submits)
              /\ job_log[i].t >= job_log[1].c
              /\ EndsHandle(job_log[i]) => i = Len(job_log)
        /\ \A i \in 2..Len(job_log) :
              /\ job_log[i].e # "submit"
              /\ job_log[i].t >= job_log[i - 1].c
              /\ job_log[i].c >= job_log[i].t

\* a step that polls leaves a log that had no handle-ending poll and a call
\* that had raised nothing; a step that submits the next page follows a
\* poll that returned pass, is sent when that poll has completed, and
\* returns a new handle
HandleStep ==
    /\ (job_log' # job_log /\ job_submits' = job_submits) =>
          /\ job_result = NoJobResult
          /\ \A i \in PollIdx : ~EndsHandle(job_log[i])
          /\ \A i \in DOMAIN job_log : job_log'[i] = job_log[i]
    /\ (job_submits' # job_submits /\ job_log # <<>>) =>
          /\ job_result = NoJobResult
          /\ job_log[Len(job_log)].e = "poll"
          /\ job_log[Len(job_log)].status = "pass"
          /\ job_log'[1].t >= job_log[Len(job_log)].c
          /\ job_log'[1].status # "error" => job_log'[1].h > job_log[1].h

\* C33: a handle is polled only after the submission that returned it, and
\* never again after a poll for it returned pass or fail or after its
\* timeout was raised; all polls of a page's handle complete before the
\* submission of the next page is sent; each HTTP exchange begins when the
\* one before it has completed.
C33_HandleLifecycle ==
    /\ []HandleScoped
    /\ [][HandleStep]_vars

\* a load_job whose second page was polled twice: the first page's handle
\* passed, the second handle was found working, then pass
C33_Witness ==
    /\ Len(job_submits) = 2
    /\ Len(job_pages) = 2
    /\ job_log[1].h = 2
    /\ Len(job_log) = 4
    /\ job_log[2].status = "working"
    /\ job_log[2].c > job_log[2].t
    /\ job_log[4].status = "pass"
    /\ job_result.kind = "returned"

\* ------------------------------------------------------------------------
\* Properties of Transactions._paginated_fetch (checked under SpecFetch)
\* ------------------------------------------------------------------------

\* the k-th request carries the offset 1 + (k-1) * limit
OffsetsByLimit ==
    \A k \in DOMAIN fetch_requests :
        fetch_requests[k].offset = 1 + (k - 1) * fetch_limit

\* the number of items accumulated with the first k pages
RECURSIVE FetchedUpTo(_)
FetchedUpTo(k) ==
    IF k = 0 THEN 0 ELSE fetch_responses[k].n + FetchedUpTo(k - 1)

\* page k ends the fetch: it is short, or the items accumulated with it
\* reach the total it reports
LastPage(k) ==
    \/ fetch_responses[k].n < fetch_limit
    \/ complete(fetch_responses[k].total, FetchedUpTo(k))

\* a request follows page k exactly when page k does not end the fetch
StopsOnLastPage ==
    \A k \in DOMAIN fetch_responses :
        IF k < Len(fetch_responses) \/ fetch_pc = "loop"
        THEN ~LastPage(k)
        ELSE fetch_result.kind = "returned" => LastPage(k)

\* every item of the endpoint is in the returned list exactly once, in order
EachItemOnce ==
    fetch_result.items = validate_all([i \in 1..Len(fetch_server) |-> i])

\* C32 as stated: the k-th request carries the offset 1 + (k-1) * limit;
\* the fetch stops after the first page that is short or with which the
\* accumulated items reach the reported total; and from an endpoint that
\* serves limit items from the item at the offset on, every item is returned
\* exactly once.
C32_AsStated ==
    /\ OffsetsByLimit
    /\ StopsOnLastPage
    /\ (fetch_result.kind = "returned" /\ fetch_serves = "items") => EachItemOnce

\* ------------------------------------------------------------------------
\* Properties of StatsResource (checked under SpecStats)
\* ------------------------------------------------------------------------

\* method m has run, and its latest result
HasRun(m) == stats_results[m] # <<>>
ResultOf(m) == stats_results[m][1]

\* the number of input transactions with the given values of the two flags
FlagCount(sale, redemption) ==
    Len(SelectSeq(v2_transactions,
                  LAMBDA t : /\ t.is_recurring_plan_sale = sale
                             /\ t.is_recurring_plan_redemption = redemption))

\* the sum of the totals of the input transactions
RECURSIVE SumTotals(_)
SumTotals(txns) ==
    IF txns = <<>> THEN 0 ELSE Head(txns).total + SumTotals(Tail(txns))

\* the fetches of a trace, and the number of its loops over the v2 list
FetchesOf(steps) == SelectSeq(steps, LAMBDA e : e # "loop_v2")
LoopsOf(steps) == Len(SelectSeq(steps, LAMBDA e : e = "loop_v2"))

\* a SalesResult whose three buckets hold every input transaction once:
\* the sale flag decides first, then the redemption flag, the rest is retail
SalesPartition(r) ==
    /\ r.recurring_plan_sales_count = FlagCount(TRUE, TRUE)
                                      + FlagCount(TRUE, FALSE)
    /\ r.recurring_redemptions_count = FlagCount(FALSE, TRUE)
    /\ r.retail_count = FlagCount(FALSE, FALSE)
    /\ r.count = r.recurring_plan_sales_count + r.recurring_redemptions_count
                 + r.retail_count
    /\ r.count = Len(v2_transactions)
    /\ r.total = r.recurring_plan_sales + r.recurring_redemptions + r.retail
    /\ r.total = SumTotals(v2_transactions)

\* C21: in the result of total_sales, and in the sales of report, every
\* input transaction is in exactly one of the three revenue buckets whatever
\* its two flags are: the bucket counts add up to count, which is the number
\* of input transactions, and the bucket revenues add up to total, which is
\* the sum of all transaction totals.
C21_SalesBuckets ==
    /\ HasRun("total_sales") => SalesPartition(ResultOf("total_sales"))
    /\ HasRun("report") => SalesPartition(ResultOf("report").sales)

C21_Witness ==
    /\ HasRun("total_sales")
    /\ HasRun("report")
    /\ Len(v2_transactions) = 2
    /\ FlagCount(TRUE, TRUE) = 1
    /\ FlagCount(FALSE, FALSE) = 1
    /\ ResultOf("total_sales").total = 1

\* a WashResult whose total is member + retail and whose retail washes are
\* all either eligible or free
WashSplit(r) ==
    /\ r.total = r.member_wash_count + r.retail_wash_count
    /\ r.eligible_wash_count + r.free_wash_count = r.retail_wash_count

\* C22 as stated: in the result of total_washes, and in the washes of
\* report, total = member_wash_count + retail_wash_count and
\* eligible_wash_count + free_wash_count = retail_wash_count.
C22_AsStated ==
    /\ HasRun("total_washes") => WashSplit(ResultOf("total_washes"))
    /\ HasRun("report") => WashSplit(ResultOf("report").washes)

\* the input transactions that count as eligible washes
EligibleCount ==
    Len(SelectSeq(v2_transactions,
                  LAMBDA t : /\ ~t.is_recurring_plan_sale
                             /\ ~t.is_recurring_plan_redemption
                             /\ t.trans_id \in wash_ids_of(wash_transactions)
                             /\ t.total > 0))

\* a ConversionResult whose rate is new_memberships / eligible_washes, or
\* 0.0 when there is no eligible wash, and never an error
RateGuarded(r) ==
    /\ r.new_memberships = FlagCount(TRUE, TRUE) + FlagCount(TRUE, FALSE)
    /\ r.eligible_washes = EligibleCount
    /\ r.rate.kind = "float"
    /\ r.eligible_washes > 0
       => r.rate.num = r.new_memberships /\ r.rate.den = r.eligible_washes
    /\ r.eligible_washes = 0 => r.rate = ZeroRate

\* C23: the rate of conversion_rate, and of the conversion of report, is
\* new_memberships / eligible_washes when eligible_washes > 0 and exactly 0.0
\* when eligible_washes = 0, whatever new_memberships is; no division by
\* zero is raised.
C23_RateGuarded ==
    /\ HasRun("conversion_rate") => RateGuarded(ResultOf("conversion_rate"))
    /\ HasRun("report") => RateGuarded(ResultOf("report").conversion)

C23_Witness ==
    /\ HasRun("conversion_rate")
    /\ HasRun("report")
    /\ ResultOf("conversion_rate").eligible_washes = 0
    /\ ResultOf("conversion_rate").new_memberships = 2
    /\ ResultOf("report").conversion.rate = ZeroRate

\* C24 as stated: over the same v2 list and wash ids, report().sales equals
\* total_sales(), report().washes equals total_washes(), report().conversion
\* equals conversion_rate() and report().new_memberships equals
\* new_memberships_sold().
C24_AsStated ==
    (\A m \in Methods : HasRun(m))
    => /\ ResultOf("report").sales = ResultOf("total_sales")
       /\ ResultOf("report").washes = ResultOf("total_washes")
       /\ ResultOf("report").conversion = ResultOf("conversion_rate")
       /\ ResultOf("report").new_memberships
            = ResultOf("new_memberships_sold")

\* C25: report makes exactly two upstream fetches, one of the v2 transactions
\* and one of the type=wash transactions, and loops over the v2 list once.
C25_ReportTwoFetches ==
    HasRun("report")
    => /\ Len(FetchesOf(stats_trace["report"])) = 2
       /\ \A kind \in {"fetch_v2", "fetch_wash"} :
            Len(SelectSeq(stats_trace["report"], LAMBDA e : e = kind)) = 1
       /\ LoopsOf(stats_trace["report"]) = 1

C25_Witness ==
    /\ HasRun("report")
    /\ Len(v2_transactions) = 2
    /\ wash_transactions = <<2, 1>>
    /\ ResultOf("report").washes.retail_wash_count = 2

\* the four KPI methods that report replaces, all run for the date range
Individual ==
    {"total_sales", "total_washes", "new_memberships_sold", "conversion_rate"}
AllIndividualRan == \A m \in Individual : HasRun(m)

\* the number of fetches the four methods made together
IndividualFetches ==
    Len(FetchesOf(stats_trace["total_sales"]))
    + Len(FetchesOf(stats_trace["total_washes"]))
    + Len(FetchesOf(stats_trace["new_memberships_sold"]))
    + Len(FetchesOf(stats_trace["conversion_rate"]))

InstantOf(value) ==
    value.day * DayTicks + value.tick
    - (IF value.kind = "aware" THEN value.off
       ELSE IF date_tz # <<>> THEN date_tz[1] ELSE 0)

IsDateTime(value) == value.kind \in {"naive", "aware"}

\* start is after end: two dates by their day, two datetimes without tzinfo
\* by their wall clock, any other two datetimes by their instants
StartAfterEnd ==
    \/ /\ date_start.kind = "date" /\ date_end.kind = "date"
       /\ date_start.day > date_end.day
    \/ /\ date_start.kind = "naive" /\ date_end.kind = "naive"
       /\ \/ date_start.day > date_end.day
          \/ date_start.day = date_end.day /\ date_start.tick > date_end.tick
    \/ /\ IsDateTime(date_start) /\ IsDateTime(date_end)
       /\ "aware" \in {date_start.kind, date_end.kind}
       /\ InstantOf(date_start) > InstantOf(date_end)

\* start equals end: the same date, or datetimes for the same instant
StartEqualsEnd ==
    \/ /\ date_start.kind = "date" /\ date_end.kind = "date"
       /\ date_start.day = date_end.day
    \/ /\ IsDateTime(date_start) /\ IsDateTime(date_end)
       /\ InstantOf(date_start) = InstantOf(date_end)

\* C27: parse_date_range raises ValueError whenever start is after end, for
\* date strings, datetime strings and datetime objects, with or without a
\* site timezone, and whenever start equals end it returns the normalized
\* pair, whose start is not after its end.
C27_RangeValidated ==
    date_result # NoDateResult
    => /\ StartAfterEnd
          => date_result.kind
               = "ValueError: start must be before or equal to end"
       /\ StartEqualsEnd
          => /\ date_result.kind = "returned"
             /\ date_result.start_dt <= date_result.end_dt
             /\ date_result.start_dt = normalize(date_start, date_tz, "start")
             /\ date_result.end_dt = normalize(date_end, date_tz, "end")

C27_Witness ==
    /\ date_result.kind = "ValueError: start must be before or equal to end"
    /\ date_start.kind = "naive"
    /\ date_end.kind = "naive"
    /\ ~date_start.text
    /\ date_tz # <<>>
    /\ date_start.day = date_end.day

\* ------------------------------------------------------------------------
\* Properties of StatsResource._resolve_dates (checked under SpecResolve)
\* ------------------------------------------------------------------------

\* C36 as stated: for a range that parse_date_range accepts, the returned
\* parameters satisfy startDate <= endDate and endDate <= now, whatever the
\* current time is; a range that is not accepted raises the ValueError and
\* gives no parameters.
C36_AsStated ==
    resolve_result # NoParams =>
        IF date_result.kind = "returned"
        THEN /\ resolve_result.kind = "returned"
             /\ resolve_result.startDate <= resolve_result.endDate
             /\ half_ticks(resolve_result.endDate) <= utc_now
        ELSE /\ resolve_result.kind = date_result.kind
             /\ resolve_result.startDate = 0
             /\ resolve_result.endDate = 0

==========================================================================
